---- MODULE Spec2Model ----
(***************************************************************************)
(* ReviewParser: the Review Issue Extraction Engine.                       *)
(*                                                                         *)
(* A JavaScript string is modelled as a sequence of tokens.  A token is a  *)
(* record [c, n]: c names the glyph (one UTF-16 code unit such as "*" or   *)
(* "\n"), a word the regular expressions treat as a unit (such as          *)
(* "CRITICAL" or "Line"), or "x", a run of n plain letters; n is the       *)
(* number of UTF-16 code units the token stands for.  Offsets, windows and *)
(* truncation are computed in code units, regular expressions are          *)
(* interpreted by a backtracking matcher over the tokens.                  *)
(***************************************************************************)
EXTENDS Integers, Sequences, FiniteSets, TLC

VARIABLES
  engine,     \* how the platform's Array.prototype.sort orders what an
              \* inconsistent comparator leaves open: "right" or "left"
  call,       \* the pending or running call: [kind, filePath, file, content, fileName, now]
  pc,         \* where the running call is: "idle", "metadata", "summary",
              \* "issues", "code", "done" (returned), "failed" (threw) or
              \* "over" (the caller makes no further call)
  result,     \* the ParsedReviewData under construction
  pattern,    \* parseIssues: the index of the pattern being run
  lastIndex,  \* parseIssues: pattern.lastIndex, as a token index (1-based)
  log,        \* what parseIssues did with each match, in order
  returned,   \* the value handed to the caller, NoValue before the return
  error,      \* the message of the Error thrown to the caller, or "none"
  history,    \* the calls completed so far: [call, returned, error]
  cleanings,  \* a text and what successive calls of cleanMarkdown made of
              \* it, each applied to the result of the one before
  classified  \* a context, a title and what the classifiers made of them

----------------------------------------------------------------------------
(* Strings *)

\* One code unit: punctuation ("bq" is the backquote), a digit, white space,
\* or one UTF-16 unit of an emoji (named by its code point).
Units ==
  { "*", "[", "]", "(", ")", ":", "-", "+", "#", "bq", "/", ".", ",", " ", "\n",
    "0", "1", "2", "3", "4", "5", "6", "7", "8", "9",
    "u274C", "uD83D", "uDD34", "uDD35", "uDFE0", "uDFE1", "uDD36",
    "u2139", "uFE0F", "uDEE1", "u26A1", "uDD16" }

Digits == { "0", "1", "2", "3", "4", "5", "6", "7", "8", "9" }

Tk(c) == [c |-> c, n |-> IF c \in Units THEN 1 ELSE Len(c)]

\* A run of n plain letters.
Xs(n) == [c |-> "x", n |-> n]

Toks(cs) == [i \in 1..Len(cs) |-> Tk(cs[i])]

\* String.prototype.toLowerCase on one token.
LowerTable ==
  [ CRITICAL |-> "critical", Critical |-> "critical",
    HIGH |-> "high", High |-> "high",
    MEDIUM |-> "medium", Medium |-> "medium",
    LOW |-> "low", Low |-> "low",
    INFO |-> "info", Info |-> "info",
    Line |-> "line", LINE |-> "line",
    Suggestion |-> "suggestion", Fix |-> "fix", Solution |-> "solution",
    Recommendation |-> "recommendation",
    Summary |-> "summary", Review |-> "review", Overview |-> "overview",
    Branch |-> "branch", Repository |-> "repository", Provider |-> "provider",
    Model |-> "model", Generated |-> "generated", Date |-> "date",
    Agent |-> "agent", Prompt |-> "prompt", Context |-> "context", Task |-> "task",
    Security |-> "security", Performance |-> "performance",
    Moderate |-> "moderate", Issue |-> "issue", Findings |-> "findings",
    AI |-> "ai", JavaScript |-> "javascript" ]

Lower(c) == IF c \in DOMAIN LowerTable THEN LowerTable[c] ELSE c

\* The code units of tokens a..b of s.
RECURSIVE UnitsIn(_, _, _)
UnitsIn(s, a, b) ==
  IF a > b THEN 0
  ELSE IF a = b THEN s[a].n
  ELSE UnitsIn(s, a, (a + b) \div 2) + UnitsIn(s, (a + b) \div 2 + 1, b)

\* s.length
StrLen(s) == UnitsIn(s, 1, Len(s))

\* The offset (in code units) of token i of s.
CharOffset(s, i) == UnitsIn(s, 1, i - 1)

\* A token cut to k of its code units: part of a run is a run, part of a
\* word is plain letters.
Piece(t, k) == IF k = t.n THEN t ELSE Xs(k)

\* s.substring(0, b): the tokens that end at or before offset b, and the
\* cut part of the token that straddles it.
Prefix(s, b) ==
  LET whole == {k \in 0..Len(s) : UnitsIn(s, 1, k) <= b}
      k == CHOOSE x \in whole : \A y \in whole : y <= x
      rest == b - UnitsIn(s, 1, k)
  IN  IF b <= 0 THEN <<>>
      ELSE IF k = Len(s) \/ rest = 0 THEN SubSeq(s, 1, k)
      ELSE Append(SubSeq(s, 1, k), Piece(s[k + 1], rest))

\* s.substring(a)
Suffix(s, a) ==
  LET gone == {k \in 0..Len(s) : UnitsIn(s, 1, k) <= a}
      k == CHOOSE x \in gone : \A y \in gone : y <= x
      cut == a - UnitsIn(s, 1, k)
  IN  IF a <= 0 THEN s
      ELSE IF k = Len(s) \/ cut = 0 THEN SubSeq(s, k + 1, Len(s))
      ELSE <<Piece(s[k + 1], s[k + 1].n - cut)>> \o SubSeq(s, k + 2, Len(s))

\* s.substring(a, b), 0 <= a <= b
Substring(s, a, b) == Prefix(Suffix(s, a), b - a)

----------------------------------------------------------------------------
(* Regular expressions: the nodes *)

\* [...] and [^...]: one token; ci is the i flag.
Ch(set) == [t |-> "set", set |-> set, neg |-> FALSE, ci |-> FALSE]
NotCh(set) == [t |-> "set", set |-> set, neg |-> TRUE, ci |-> FALSE]
\* A literal: the listed tokens one after the other.
Lit(cs) == [t |-> "lit", w |-> cs, ci |-> FALSE]
LitI(cs) == [t |-> "lit", w |-> cs, ci |-> TRUE]
Cat(rs) == [t |-> "seq", a |-> rs]
Alt(rs) == [t |-> "alt", a |-> rs]
Opt(r) == Alt(<<r, Cat(<<>>)>>)
\* Quantified classes: c{min,max}, max = -1 for no bound, greedy or lazy.
Rep(c, min, max, lazy) == [t |-> "rep", c |-> c, min |-> min, max |-> max, lazy |-> lazy]
Star(c) == Rep(c, 0, -1, FALSE)
StarLazy(c) == Rep(c, 0, -1, TRUE)
Plus(c) == Rep(c, 1, -1, FALSE)
PlusLazy(c) == Rep(c, 1, -1, TRUE)
Grp(k, r) == [t |-> "grp", k |-> k, a |-> r]
Look(r) == [t |-> "look", a |-> r]
Bol == [t |-> "bol"]
Eol == [t |-> "eol"]
End == [t |-> "end"]

Dot == NotCh({"\n"})          \* .
AnyCh == NotCh({})            \* [\s\S]
Space == Ch({" ", "\n"})      \* \s
Digit == Ch(Digits)           \* \d

\* The capture groups of a match: group k spans tokens a..b-1, or is
\* undefined (a = 0).  No expression of the parser has more than 4 groups.
NoGroup == [a |-> 0, b |-> 0]
NoGroups == [k \in 1..4 |-> NoGroup]
NoMatch == [ok |-> FALSE, i |-> 0, e |-> 0, g |-> NoGroups]

\* A run of letters is matched as a whole by a class and by no literal.
SameToken(tok, c, ci) ==
  /\ tok.n = Tk(tok.c).n
  /\ IF ci THEN Lower(tok.c) = Lower(c) ELSE tok.c = c

InSet(tok, r) ==
  IF r.neg THEN ~(\E c \in r.set : SameToken(tok, c, r.ci))
  ELSE \E c \in r.set : SameToken(tok, c, r.ci)

\* The backtracking matcher.  Ways(r, s, i, g) is the sequence of the ways r
\* matches at token i of s, in the order a backtracking engine tries them;
\* a way is [e, g]: the token after the match and the groups.
RECURSIVE Ways(_, _, _, _)
RECURSIVE SeqWays(_, _, _, _, _, _)
RECURSIVE ThenWays(_, _, _, _, _, _, _)
RECURSIVE AltWays(_, _, _, _, _, _)

Ways(r, s, i, g) ==
  CASE r.t = "set" ->
         IF i <= Len(s) /\ InSet(s[i], r) THEN <<[e |-> i + 1, g |-> g]>> ELSE <<>>
    [] r.t = "lit" ->
         IF /\ i + Len(r.w) - 1 <= Len(s)
            /\ \A j \in 1..Len(r.w) : SameToken(s[i + j - 1], r.w[j], r.ci)
         THEN <<[e |-> i + Len(r.w), g |-> g]>> ELSE <<>>
    [] r.t = "rep" ->
         LET stops == {j \in i..(Len(s) + 1) : j = Len(s) + 1 \/ ~InSet(s[j], r.c)}
             stop == CHOOSE j \in stops : \A k \in stops : j <= k
             most == IF r.max >= 0 /\ stop - i > r.max THEN r.max ELSE stop - i
             n == most - r.min + 1
         IN  IF n <= 0 THEN <<>>
             ELSE IF r.lazy THEN [k \in 1..n |-> [e |-> i + r.min + k - 1, g |-> g]]
             ELSE [k \in 1..n |-> [e |-> i + most - k + 1, g |-> g]]
    [] r.t = "seq" ->
         IF r.a = <<>> THEN <<[e |-> i, g |-> g]>> ELSE SeqWays(r.a, 1, Len(r.a), s, i, g)
    [] r.t = "alt" -> AltWays(r.a, 1, Len(r.a), s, i, g)
    [] r.t = "grp" ->
         LET ws == Ways(r.a, s, i, g)
         IN  [k \in 1..Len(ws) |->
                [e |-> ws[k].e, g |-> [ws[k].g EXCEPT ![r.k] = [a |-> i, b |-> ws[k].e]]]]
    [] r.t = "look" -> IF Ways(r.a, s, i, g) # <<>> THEN <<[e |-> i, g |-> g]>> ELSE <<>>
    [] r.t = "bol" -> IF i = 1 \/ s[i - 1].c = "\n" THEN <<[e |-> i, g |-> g]>> ELSE <<>>
    [] r.t = "eol" ->
         IF i = Len(s) + 1 \/ s[i].c = "\n" THEN <<[e |-> i, g |-> g]>> ELSE <<>>
    [] r.t = "end" -> IF i = Len(s) + 1 THEN <<[e |-> i, g |-> g]>> ELSE <<>>

\* rs[lo..hi] one after the other.
SeqWays(rs, lo, hi, s, i, g) ==
  IF lo = hi THEN Ways(rs[lo], s, i, g)
  ELSE LET mid == (lo + hi) \div 2
           left == SeqWays(rs, lo, mid, s, i, g)
       IN  ThenWays(left, 1, Len(left), rs, mid + 1, hi, s)

\* Each of the ways left[a..b], continued by rs[lo..hi].
ThenWays(left, a, b, rs, lo, hi, s) ==
  IF a > b THEN <<>>
  ELSE IF a = b THEN SeqWays(rs, lo, hi, s, left[a].e, left[a].g)
  ELSE ThenWays(left, a, (a + b) \div 2, rs, lo, hi, s)
         \o ThenWays(left, (a + b) \div 2 + 1, b, rs, lo, hi, s)

\* rs[lo..hi] as alternatives, the earlier first.
AltWays(rs, lo, hi, s, i, g) ==
  IF lo > hi THEN <<>>
  ELSE IF lo = hi THEN Ways(rs[lo], s, i, g)
  ELSE AltWays(rs, lo, (lo + hi) \div 2, s, i, g)
         \o AltWays(rs, (lo + hi) \div 2 + 1, hi, s, i, g)

\* The match of r at token i of s: the first way.
FirstWay(ws, i) ==
  IF ws = <<>> THEN NoMatch ELSE [ok |-> TRUE, i |-> i, e |-> ws[1].e, g |-> ws[1].g]
MatchAt(r, s, i) == FirstWay(Ways(r, s, i, NoGroups), i)

\* The least member of a set of integers; 0 when it is empty.
Least(set) == IF set = {} THEN 0 ELSE CHOOSE i \in set : \A j \in set : i <= j

\* RegExp.prototype.exec from lastIndex (a token index, 1-based): the
\* leftmost match at or after it.
MatchAtOrNone(r, s, i) == IF i = 0 THEN NoMatch ELSE MatchAt(r, s, i)
Exec(r, s, from) ==
  MatchAtOrNone(r, s, Least({i \in from..(Len(s) + 1) : Ways(r, s, i, NoGroups) # <<>>}))

\* String.prototype.match with a regular expression without the g flag.
Match(s, r) == Exec(r, s, 1)

\* match[k]: the text of group k; match[0] is the whole match.
Undefined == <<[c |-> "undefined", n |-> 0]>>
Group(s, m, k) ==
  IF k = 0 THEN SubSeq(s, m.i, m.e - 1)
  ELSE IF m.g[k].a = 0 THEN Undefined
  ELSE SubSeq(s, m.g[k].a, m.g[k].b - 1)

----------------------------------------------------------------------------
(* String methods *)

\* String.prototype.includes: kw is the lower-case keyword, token by token.
Includes(s, kw) ==
  \E i \in 1..(Len(s) - Len(kw) + 1) :
    \A j \in 1..Len(kw) : SameToken(s[i + j - 1], kw[j], TRUE)

\* String.prototype.startsWith
StartsWith(s, p) ==
  /\ Len(s) >= Len(p)
  /\ \A j \in 1..Len(p) : SameToken(s[j], p[j], FALSE)

IsSpace(tok) == tok.c \in {" ", "\n"}

\* String.prototype.trim
Trim(s) ==
  LET inked == {i \in 1..Len(s) : ~IsSpace(s[i])}
  IN  IF inked = {} THEN <<>>
      ELSE SubSeq(s, CHOOSE i \in inked : \A j \in inked : i <= j,
                     CHOOSE i \in inked : \A j \in inked : j <= i)
TrimLeft(s) ==
  LET inked == {i \in 1..Len(s) : ~IsSpace(s[i])}
  IN  IF inked = {} THEN <<>>
      ELSE SubSeq(s, CHOOSE i \in inked : \A j \in inked : i <= j, Len(s))

\* The pieces of s between the separators, which start at the tokens in
\* at and are width tokens wide.
Pieces(s, at, width) ==
  LET nth(k) == CHOOSE p \in at : Cardinality({q \in at : q < p}) = k - 1
  IN  [k \in 1..(Cardinality(at) + 1) |->
         SubSeq(s, IF k = 1 THEN 1 ELSE nth(k - 1) + width,
                   IF k = Cardinality(at) + 1 THEN Len(s) ELSE nth(k) - 1)]

\* The starts of the non-overlapping occurrences of sep, from the left.
RECURSIVE Occurrences(_, _, _)
Occurrences(s, sep, from) ==
  LET hits == {i \in from..(Len(s) - Len(sep) + 1) :
                 \A j \in 1..Len(sep) : s[i + j - 1].c = sep[j]}
      first == CHOOSE i \in hits : \A j \in hits : i <= j
  IN  IF hits = {} THEN {} ELSE {first} \cup Occurrences(s, sep, first + Len(sep))

\* String.prototype.split on a separator string: the pieces, in order.
Split(s, sep) ==
  IF Len(sep) = 1
  THEN Pieces(s, {i \in 1..Len(s) : s[i].c = sep[1]}, 1)
  ELSE Pieces(s, Occurrences(s, sep, 1), Len(sep))

\* String.prototype.split on a regular expression that matches one token
\* (and may look ahead).
SplitRe(s, r) == Pieces(s, {i \in 1..Len(s) : MatchAt(r, s, i).ok}, 1)

\* Array.prototype.join
RECURSIVE Join(_, _)
Join(parts, sep) ==
  IF parts = <<>> THEN <<>>
  ELSE IF Len(parts) = 1 THEN parts[1]
  ELSE parts[1] \o sep \o Join(Tail(parts), sep)

\* Array.prototype.slice(a, b), 0 <= a
Slice(xs, a, b) == SubSeq(xs, a + 1, IF b < Len(xs) THEN b ELSE Len(xs))

\* String.prototype.replace with a g-flagged expression and the
\* replacement '$k' (k = 0 stands for the empty replacement ''): one match
\* after the other, each from where the one before ended.
RECURSIVE ReplaceFrom(_, _, _, _)
RECURSIVE ReplaceMatch(_, _, _, _, _)
ReplaceFrom(s, r, k, from) == ReplaceMatch(s, r, k, from, Exec(r, s, from))
ReplaceMatch(s, r, k, from, m) ==
  IF ~m.ok THEN SubSeq(s, from, Len(s))
  ELSE SubSeq(s, from, m.i - 1)
         \o (IF k = 0 THEN <<>> ELSE Group(s, m, k))
         \o ReplaceFrom(s, r, k, m.e)
ReplaceAll(s, r, k) == ReplaceFrom(s, r, k, 1)

\* A JavaScript number: an integer or NaN.
Num(v) == [nan |-> FALSE, v |-> v]
NaN == [nan |-> TRUE, v |-> 0]

DigitValue(c) ==
  CASE c = "0" -> 0 [] c = "1" -> 1 [] c = "2" -> 2 [] c = "3" -> 3 [] c = "4" -> 4
    [] c = "5" -> 5 [] c = "6" -> 6 [] c = "7" -> 7 [] c = "8" -> 8 [] c = "9" -> 9

\* The value of the longest prefix of s made of digits, in the given radix,
\* continuing from acc.
RECURSIVE DigitsValue(_, _, _)
DigitsValue(s, radix, acc) ==
  IF s # <<>> /\ Head(s).c \in Digits
  THEN DigitsValue(Tail(s), radix, acc * radix + DigitValue(Head(s).c))
  ELSE acc

\* parseInt(s) without a radix: white space is skipped, a sign is read, a
\* "0x" prefix selects radix 16; NaN when no digit follows.
ParseInt(s) ==
  LET t == TrimLeft(s)
      neg == t # <<>> /\ Head(t).c = "-"
      u == IF t # <<>> /\ Head(t).c \in {"-", "+"} THEN Tail(t) ELSE t
      hex == Len(u) >= 2 /\ u[1].c = "0" /\ u[2].c = "x"
      d == IF hex THEN (IF u[2].n = 1 THEN SubSeq(u, 3, Len(u)) ELSE <<>>) ELSE u
      v == DigitsValue(d, IF hex THEN 16 ELSE 10, 0)
  IN  IF d = <<>> \/ Head(d).c \notin Digits THEN NaN
      ELSE Num(IF neg THEN 0 - v ELSE v)

----------------------------------------------------------------------------
(* src/unnamed/part_000, ReviewParser: the helper methods *)

\* /\*\*(.*?)\*\*/g, /\*(.*?)\*/g, /`(.*?)`/g, /#{1,6}\s*/g, /^\s*[-*+]\s*/gm
MarkdownRes ==
  [ bold |-> Cat(<<Lit(<<"*", "*">>), Grp(1, StarLazy(Dot)), Lit(<<"*", "*">>)>>),
    italic |-> Cat(<<Lit(<<"*">>), Grp(1, StarLazy(Dot)), Lit(<<"*">>)>>),
    code |-> Cat(<<Lit(<<"bq">>), Grp(1, StarLazy(Dot)), Lit(<<"bq">>)>>),
    header |-> Cat(<<Rep(Ch({"#"}), 1, 6, FALSE), Star(Space)>>),
    listItem |-> Cat(<<Bol, Star(Space), Ch({"-", "*", "+"}), Star(Space)>>) ]

cleanMarkdown(text) ==
  Trim(ReplaceAll(ReplaceAll(ReplaceAll(ReplaceAll(ReplaceAll(text,
    MarkdownRes.bold, 1), MarkdownRes.italic, 1), MarkdownRes.code, 1),
    MarkdownRes.header, 0), MarkdownRes.listItem, 0))

None == "none"

\* normalizeSeverity falling back on the token itself.
normalizeSeverityKeepingToken(severity) ==
  CASE Includes(severity, <<"critical">>) -> "critical"
    [] Includes(severity, <<"high">>) -> "high"
    [] Includes(severity, <<"medium">>) -> "medium"
    [] Includes(severity, <<"low">>) -> "low"
    [] Includes(severity, <<"info">>) -> "info"
    [] OTHER -> Lower(severity[1].c)

\* normalizeSeverity with its tests in the opposite order.
normalizeSeverityInfoFirst(severity) ==
  CASE Includes(severity, <<"info">>) \/ Includes(severity, <<"u2139", "uFE0F">>) -> "info"
    [] Includes(severity, <<"low">>) \/ Includes(severity, <<"uD83D", "uDD35">>) -> "low"
    [] Includes(severity, <<"medium">>) \/ Includes(severity, <<"uD83D", "uDFE1">>) -> "medium"
    [] Includes(severity, <<"high">>) \/ Includes(severity, <<"uD83D", "uDFE0">>) -> "high"
    [] Includes(severity, <<"critical">>) \/ Includes(severity, <<"uD83D", "uDD34">>) -> "critical"
    [] OTHER -> None

normalizeSeverity(severity) ==
  CASE Includes(severity, <<"critical">>) \/ Includes(severity, <<"uD83D", "uDD34">>) -> "critical"
    [] Includes(severity, <<"high">>) \/ Includes(severity, <<"uD83D", "uDFE0">>) -> "high"
    [] Includes(severity, <<"medium">>) \/ Includes(severity, <<"uD83D", "uDFE1">>) -> "medium"
    [] Includes(severity, <<"low">>) \/ Includes(severity, <<"uD83D", "uDD35">>) -> "low"
    [] Includes(severity, <<"info">>) \/ Includes(severity, <<"u2139", "uFE0F">>) -> "info"
    [] OTHER -> None

\* inferSeverityFromContent with low as its default.
inferSeverityDefaultLow(content) ==
  CASE Includes(content, <<"critical">>) \/ Includes(content, <<"uD83D", "uDD34">>) -> "critical"
    [] Includes(content, <<"high">>) \/ Includes(content, <<"uD83D", "uDFE0">>) -> "high"
    [] Includes(content, <<"medium">>) \/ Includes(content, <<"uD83D", "uDFE1">>) -> "medium"
    [] OTHER -> "low"

inferSeverityFromContent(content) ==
  CASE Includes(content, <<"critical">>) \/ Includes(content, <<"uD83D", "uDD34">>) -> "critical"
    [] Includes(content, <<"high">>) \/ Includes(content, <<"uD83D", "uDFE0">>) -> "high"
    [] Includes(content, <<"medium">>) \/ Includes(content, <<"uD83D", "uDFE1">>) -> "medium"
    [] Includes(content, <<"low">>) \/ Includes(content, <<"uD83D", "uDD35">>) -> "low"
    [] OTHER -> "info"

\* inferCategoryFromContent with the test of performance before the test of
\* security.
inferCategoryPerformanceFirst(content) ==
  CASE \/ Includes(content, <<"performance">>) \/ Includes(content, <<"u26A1">>)
       \/ Includes(content, <<"optimization">>) \/ Includes(content, <<"s", "low">>) -> "performance"
    [] \/ Includes(content, <<"security">>) \/ Includes(content, <<"uD83D", "uDEE1", "uFE0F">>)
       \/ Includes(content, <<"vulnerability">>) \/ Includes(content, <<"auth">>) -> "security"
    [] \/ Includes(content, <<"architecture">>) \/ Includes(content, <<"uD83C", "uDFD7", "uFE0F">>)
       \/ Includes(content, <<"design">>) \/ Includes(content, <<"pattern">>) -> "architecture"
    [] \/ Includes(content, <<"test">>) \/ Includes(content, <<"uD83E", "uDDEA">>)
       \/ Includes(content, <<"coverage">>) -> "testing"
    [] \/ Includes(content, <<"document">>) \/ Includes(content, <<"uD83D", "uDCDA">>)
       \/ Includes(content, <<"comment">>) \/ Includes(content, <<"docs">>) -> "documentation"
    [] OTHER -> "general"

inferCategoryFromContent(content) ==
  CASE \/ Includes(content, <<"security">>) \/ Includes(content, <<"uD83D", "uDEE1", "uFE0F">>)
       \/ Includes(content, <<"vulnerability">>) \/ Includes(content, <<"auth">>) -> "security"
    [] \/ Includes(content, <<"performance">>) \/ Includes(content, <<"u26A1">>)
       \/ Includes(content, <<"optimization">>) \/ Includes(content, <<"s", "low">>) -> "performance"
    [] \/ Includes(content, <<"architecture">>) \/ Includes(content, <<"uD83C", "uDFD7", "uFE0F">>)
       \/ Includes(content, <<"design">>) \/ Includes(content, <<"pattern">>) -> "architecture"
    [] \/ Includes(content, <<"test">>) \/ Includes(content, <<"uD83E", "uDDEA">>)
       \/ Includes(content, <<"coverage">>) -> "testing"
    [] \/ Includes(content, <<"document">>) \/ Includes(content, <<"uD83D", "uDCDA">>)
       \/ Includes(content, <<"comment">>) \/ Includes(content, <<"docs">>) -> "documentation"
    [] OTHER -> "general"

getExtensionForLanguage(language) ==
  LET l == Lower(language)
  IN  CASE l = "javascript" -> "js" [] l = "typescript" -> "ts" [] l = "python" -> "py"
        [] l = "java" -> "java" [] l = "go" -> "go" [] l = "rust" -> "rs"
        [] l = "php" -> "php" [] l = "ruby" -> "rb" [] l = "css" -> "css"
        [] l = "html" -> "html" [] l = "json" -> "json" [] l = "yaml" -> "yml"
        [] l = "sql" -> "sql" [] OTHER -> "txt"

\* The lines of a section that are not blank and start neither with '#'
\* nor with '**' (the filter of extractDescriptionFromSection and of
\* extractIssueContext).
IsPlainLine(line) ==
  /\ Trim(line) # <<>>
  /\ ~StartsWith(line, <<"#">>)
  /\ ~StartsWith(line, <<"*", "*">>)
PlainLines(lines) == SelectSeq(lines, IsPlainLine)

\* The first line that, trimmed, starts with '##' or '**'; <<>> when none.
IsTitleLine(line) ==
  StartsWith(Trim(line), <<"#", "#">>) \/ StartsWith(Trim(line), <<"*", "*">>)
FirstTitleLine(lines) ==
  LET found == SelectSeq(lines, IsTitleLine)
  IN  IF found = <<>> THEN <<>> ELSE <<Trim(found[1])>>

CleanFirst(found) == IF found = <<>> THEN <<>> ELSE cleanMarkdown(found[1])
extractTitleFromSection(section) == CleanFirst(FirstTitleLine(Split(section, <<"\n">>)))

extractDescriptionFromSection(section) ==
  Prefix(Join(Slice(PlainLines(Split(section, <<"\n">>)), 0, 3), <<Tk(" ")>>), 200)

SectionSuggestionRe ==
  Cat(<<Alt(<<LitI(<<"suggestion">>), LitI(<<"fix">>), LitI(<<"solution">>)>>),
        Lit(<<":">>), Star(Space), Grp(1, Star(Dot))>>)

\* match ? match[k] : ''
GroupOrEmpty(s, m, k) == IF m.ok THEN Group(s, m, k) ELSE <<>>

extractSuggestionFromSection(section) ==
  Prefix(GroupOrEmpty(section, Match(section, SectionSuggestionRe), 1), 200)

----------------------------------------------------------------------------
(* extractIssueContext *)

ContextSuggestionRe ==
  Cat(<<Alt(<<LitI(<<"Suggestion">>), LitI(<<"Fix">>), LitI(<<"Solution">>),
              LitI(<<"Recommendation">>)>>),
        Lit(<<":">>), Star(Space), Grp(1, StarLazy(AnyCh)),
        Look(Alt(<<Lit(<<"\n", "*", "*">>), Lit(<<"\n", "#", "#">>), End>>))>>)

AgentPromptRe ==
  Cat(<<Alt(<<LitI(<<"Agent", " ", "Prompt">>), Lit(<<"uD83E", "uDD16">>)>>),
        Lit(<<":">>), Star(Space), Lit(<<"bq", "bq">>), Opt(Lit(<<"bq">>)), Star(Space),
        Grp(1, StarLazy(AnyCh)), Lit(<<"bq", "bq">>), Opt(Lit(<<"bq">>))>>)

\* /Context:.*?\nTask:.*?\n/s : no capture group, the dot matches "\n".
ContextTaskRe ==
  Cat(<<Lit(<<"Context", ":">>), StarLazy(AnyCh), Lit(<<"\n", "Task", ":">>),
        StarLazy(AnyCh), Lit(<<"\n">>)>>)

Str(words) == Toks(words)
NoDescription == Str(<<"No", " ", "description", " ", "available">>)
ReviewAndAddress == Str(<<"Review", " ", "and", " ", "address", " ", "this", " ", "issue">>)
NoSuggestion == Str(<<"No", " ", "specific", " ", "suggestion", " ", "provided">>)

\* The value returned, or [threw |-> TRUE] when the TypeError of
\* agentPromptMatch[1].trim() on an undefined group is thrown.
\* a || b on strings: the empty string is falsy.
OrText(a, b) == IF a = <<>> THEN b ELSE a

\* The returned object without the default of its suggestion.
IssueContextWithoutDefault(context, joined, cleaned, first, second, category) ==
  IF ~first.ok /\ second.ok THEN [threw |-> TRUE]
  ELSE [ threw |-> FALSE,
         description |-> OrText(Prefix(joined, 300), NoDescription),
         suggestion |-> Prefix(cleaned, 400),
         agentPrompt |-> IF first.ok THEN Trim(Group(context, first, 1)) ELSE Undefined,
         category |-> category,
         descLen |-> StrLen(joined),
         suggLen |-> StrLen(cleaned) ]

\* The returned object, given the untruncated description (joined), the
\* cleaned untruncated suggestion and the two agent-prompt matches.
IssueContext(context, joined, cleaned, first, second, category) ==
  IF ~first.ok /\ second.ok THEN [threw |-> TRUE]
  ELSE [ threw |-> FALSE,
         description |-> OrText(Prefix(joined, 300), NoDescription),
         suggestion |-> OrText(Prefix(cleaned, 400), ReviewAndAddress),
         agentPrompt |-> IF first.ok THEN Trim(Group(context, first, 1)) ELSE Undefined,
         category |-> category,
         descLen |-> StrLen(joined),
         suggLen |-> StrLen(cleaned) ]

\* extractIssueContext without its two substring calls.
extractIssueContextUncut(context, title) ==
  [ IssueContext(context,
      Join(PlainLines(Slice(Split(context, <<"\n">>), 1, 5)), <<Tk(" ")>>),
      cleanMarkdown(GroupOrEmpty(context, Match(context, ContextSuggestionRe), 1)),
      Match(context, AgentPromptRe),
      Match(context, ContextTaskRe),
      inferCategoryFromContent(context \o title))
    EXCEPT !.description =
             OrText(Join(PlainLines(Slice(Split(context, <<"\n">>), 1, 5)), <<Tk(" ")>>),
                    NoDescription) ]

extractIssueContext(context, title) ==
  IssueContext(context,
    Join(PlainLines(Slice(Split(context, <<"\n">>), 1, 5)), <<Tk(" ")>>),
    cleanMarkdown(GroupOrEmpty(context, Match(context, ContextSuggestionRe), 1)),
    Match(context, AgentPromptRe),
    Match(context, ContextTaskRe),
    inferCategoryFromContent(context \o title))

----------------------------------------------------------------------------
(* parseIssues: the issue patterns *)

SeverityWord ==
  Alt(<<LitI(<<"CRITICAL">>), LitI(<<"HIGH">>), LitI(<<"MEDIUM">>), LitI(<<"LOW">>),
        LitI(<<"INFO">>)>>)

LineNumberInParens ==
  Cat(<<Lit(<<"(">>), Opt(Cat(<<LitI(<<"Line">>), Plus(Space)>>))>>)

\* The first pattern with the brackets around the severity word required.
BoldTagPatternBracketed ==
  Cat(<<Lit(<<"*", "*">>), Lit(<<"[">>), Grp(1, SeverityWord), Lit(<<"]">>),
        Plus(Space), Grp(2, PlusLazy(Dot)), Star(Space), LineNumberInParens,
        Grp(3, Plus(Digit)), Lit(<<")", "*", "*">>)>>)

\* /\*\*\[?(CRITICAL|HIGH|MEDIUM|LOW|INFO)\]?\s+(.+?)\s*\((?:Line\s+)?(\d+)\)\*\*/gi
BoldTagPattern ==
  Cat(<<Lit(<<"*", "*">>), Opt(Lit(<<"[">>)), Grp(1, SeverityWord), Opt(Lit(<<"]">>)),
        Plus(Space), Grp(2, PlusLazy(Dot)), Star(Space), LineNumberInParens,
        Grp(3, Plus(Digit)), Lit(<<")", "*", "*">>)>>)

\* /###\s*[🔴🟠🟡🔵ℹ️]?\s*(CRITICAL|HIGH|MEDIUM|LOW|INFO)\s*-?\s*(.+?)\s*\(([^:]+):(\d+)\)/gi
\* Without the u flag the class holds the UTF-16 units of its emoji.
HeadingPattern ==
  Cat(<<Lit(<<"#", "#", "#">>), Star(Space),
        Opt(Ch({"uD83D", "uDD34", "uDFE0", "uDFE1", "uDD35", "u2139", "uFE0F"})),
        Star(Space), Grp(1, SeverityWord), Star(Space), Opt(Lit(<<"-">>)), Star(Space),
        Grp(2, PlusLazy(Dot)), Star(Space), Lit(<<"(">>), Grp(3, Plus(NotCh({":"}))),
        Lit(<<":">>), Grp(4, Plus(Digit)), Lit(<<")">>)>>)

\* /[❌🔶🟡🔵ℹ️]\s*\*\*(.+?)\s*\((?:Line\s+)?(\d+)\)\*\*:?\s*(.+)/gi
EmojiPattern ==
  Cat(<<Ch({"u274C", "uD83D", "uDD36", "uDFE1", "uDD35", "u2139", "uFE0F"}),
        Star(Space), Lit(<<"*", "*">>), Grp(1, PlusLazy(Dot)), Star(Space),
        LineNumberInParens, Grp(2, Plus(Digit)), Lit(<<")", "*", "*">>),
        Opt(Lit(<<":">>)), Star(Space), Grp(3, Plus(Dot))>>)

\* /\*\*(CRITICAL|HIGH|MEDIUM|LOW|INFO)\*\*:?\s*(.+?)\s*-?\s*Line\s+(\d+)/gi
LabelPattern ==
  Cat(<<Lit(<<"*", "*">>), Grp(1, SeverityWord), Lit(<<"*", "*">>), Opt(Lit(<<":">>)),
        Star(Space), Grp(2, PlusLazy(Dot)), Star(Space), Opt(Lit(<<"-">>)), Star(Space),
        LitI(<<"Line">>), Plus(Space), Grp(3, Plus(Digit))>>)

\* The expressions in their order, each with its match.length (1 + groups).
issuePatterns ==
  << [re |-> BoldTagPattern, length |-> 4],
     [re |-> HeadingPattern, length |-> 5],
     [re |-> EmojiPattern, length |-> 4],
     [re |-> LabelPattern, length |-> 4] >>

\* pattern.exec(content) of pattern p with lastIndex = from - 1.
WithLength(m, n) == [ok |-> m.ok, i |-> m.i, e |-> m.e, g |-> m.g, length |-> n]
PatternExec(p, content, from) ==
  WithLength(Exec(issuePatterns[p].re, content, from), issuePatterns[p].length)

Max(a, b) == IF a >= b THEN a ELSE b
Min(a, b) == IF a <= b THEN a ELSE b

\* The window of content mined for the details of a match.
ContextOf(content, match) ==
  LET matchIndex == CharOffset(content, match.i)
      contextStart == Max(0, matchIndex - 200)
      contextEnd == Min(StrLen(content), matchIndex + 1000)
  IN  Substring(content, contextStart, contextEnd)

Null == [null |-> TRUE]

\* The object literal of the return statement.
IssueRecord(match, normalizedSeverity, title, file, line, ctx) ==
  [ null |-> FALSE,
    line |-> line,
    severity |-> normalizedSeverity,
    category |-> ctx.category,
    title |-> title,
    description |-> OrText(ctx.description, NoDescription),
    suggestion |-> OrText(ctx.suggestion, NoSuggestion),
    agentPrompt |-> ctx.agentPrompt,
    file |-> file,
    src |-> [ by |-> "pattern", at |-> match.i,
              descLen |-> ctx.descLen, suggLen |-> ctx.suggLen ] ]

\* IssueOf guessing the severity it could not normalize.
IssueOfGuessing(match, normalizedSeverity, title, file, line, ctx) ==
  IF ctx.threw THEN [threw |-> TRUE]
  ELSE [ threw |-> FALSE,
         value |-> IssueRecord(match,
                               IF normalizedSeverity = None THEN "info"
                               ELSE normalizedSeverity,
                               title, file, line, ctx) ]

\* What the try block returns, given what it destructured and the context
\* it extracted (ctx).
IssueOf(match, normalizedSeverity, title, file, line, ctx) ==
  IF normalizedSeverity = None THEN [threw |-> FALSE, value |-> Null]
  ELSE IF ctx.threw THEN [threw |-> TRUE]
  ELSE [ threw |-> FALSE,
         value |-> IssueRecord(match, normalizedSeverity, title, file, line, ctx) ]

\* The value the try block computes, or [threw |-> TRUE].
ExtractIssueTry(content, match) ==
  IF match.length \notin {4, 5} THEN [threw |-> FALSE, value |-> Null]
  ELSE IssueOf(match,
         normalizeSeverity(Group(content, match, 1)),
         cleanMarkdown(Group(content, match, 2)),
         IF match.length = 5 THEN Group(content, match, 3) ELSE Undefined,
         ParseInt(Group(content, match, IF match.length = 5 THEN 4 ELSE 3)),
         extractIssueContext(ContextOf(content, match), Group(content, match, 2)))

\* try { ... } catch (error) { console.error(...); return null; }
\* The result is [threw, value]: threw is whether the call itself throws.
Caught(attempt) == IF attempt.threw THEN [threw |-> FALSE, value |-> Null] ELSE attempt
\* extractIssueDetails without its try/catch.
extractIssueDetailsUncaught(content, match) == ExtractIssueTry(content, match)

extractIssueDetails(content, match) == Caught(ExtractIssueTry(content, match))

----------------------------------------------------------------------------
(* parseStructuredIssues: the fallback scanner *)

\* /\n(?=##\s)/
SectionBreakRe == Cat(<<Lit(<<"\n">>), Look(Cat(<<Lit(<<"#", "#">>), Space>>))>>)

\* /line\s+(\d+)/gi
LineMentionRe == Cat(<<LitI(<<"line">>), Plus(Space), Grp(1, Plus(Digit))>>)

\* String.prototype.match with a g-flagged expression: the matched texts.
RECURSIVE MatchAllFrom(_, _, _)
RECURSIVE MatchAllNext(_, _, _)
MatchAllFrom(s, r, from) == MatchAllNext(s, r, Exec(r, s, from))
MatchAllNext(s, r, m) ==
  IF ~m.ok THEN <<>> ELSE <<Group(s, m, 0)>> \o MatchAllFrom(s, r, m.e)
MatchAll(s, r) == MatchAllFrom(s, r, 1)

\* The test of a section with info among the indicators.
hasSeverityWithInfo(section) ==
  \/ \E kw \in {"critical", "high", "medium", "low", "info"} : Includes(section, <<kw>>)
  \/ Includes(section, <<"uD83D", "uDD34">>)
  \/ Includes(section, <<"uD83D", "uDFE0">>)
  \/ Includes(section, <<"uD83D", "uDFE1">>)
  \/ Includes(section, <<"uD83D", "uDD35">>)

hasSeverity(section) ==
  \/ \E kw \in {"critical", "high", "medium", "low"} : Includes(section, <<kw>>)
  \/ Includes(section, <<"uD83D", "uDD34">>)
  \/ Includes(section, <<"uD83D", "uDFE0">>)
  \/ Includes(section, <<"uD83D", "uDFE1">>)
  \/ Includes(section, <<"uD83D", "uDD35">>)

\* String(n) for n > 0, token by token.
DigitName(d) ==
  CASE d = 0 -> "0" [] d = 1 -> "1" [] d = 2 -> "2" [] d = 3 -> "3" [] d = 4 -> "4"
    [] d = 5 -> "5" [] d = 6 -> "6" [] d = 7 -> "7" [] d = 8 -> "8" [] d = 9 -> "9"
RECURSIVE NumberToString(_)
NumberToString(n) ==
  IF n < 10 THEN <<Tk(DigitName(n))>>
  ELSE NumberToString(n \div 10) \o <<Tk(DigitName(n % 10))>>

\* lineMatch.replace(/\D/g, '')
IsDigit(tok) == tok.c \in Digits
OnlyDigits(s) == SelectSeq(s, IsDigit)

IssueFoundInReview ==
  Str(<<"Issue", " ", "found", " ", "in", " ", "code", " ", "review">>)

\* The issue with the extracted texts as they are, empty or not.
SectionIssueWithoutPlaceholders(section, lineNum, title, description, suggestion, descLen, suggLen) ==
  [ null |-> FALSE,
    line |-> lineNum,
    severity |-> inferSeverityFromContent(section),
    category |-> inferCategoryFromContent(section),
    title |-> title,
    description |-> description,
    suggestion |-> suggestion,
    agentPrompt |-> Undefined,
    file |-> Undefined,
    src |-> [by |-> "fallback", at |-> 0, descLen |-> descLen, suggLen |-> suggLen] ]

\* The issue pushed for line lineNum of a section, given the section's title,
\* description and suggestion, and the untruncated lengths of the last two.
SectionIssue(section, lineNum, title, description, suggestion, descLen, suggLen) ==
  [ null |-> FALSE,
    line |-> lineNum,
    severity |-> inferSeverityFromContent(section),
    category |-> inferCategoryFromContent(section),
    title |-> OrText(title, Str(<<"Issue", " ", "at", " ", "line", " ">>)
                              \o NumberToString(lineNum.v)),
    description |-> OrText(description, IssueFoundInReview),
    suggestion |-> OrText(suggestion, ReviewAndAddress),
    agentPrompt |-> Undefined,
    file |-> Undefined,
    src |-> [by |-> "fallback", at |-> 0, descLen |-> descLen, suggLen |-> suggLen] ]

\* The push without the test of lineNum.
PushAlways(section, lineNum, title, description, suggestion, descLen, suggLen) ==
  <<SectionIssue(section, lineNum, title, description, suggestion, descLen, suggLen)>>

\* if (lineNum > 0) issues.push(...)
PushIfPositive(section, lineNum, title, description, suggestion, descLen, suggLen) ==
  IF ~lineNum.nan /\ lineNum.v > 0
  THEN <<SectionIssue(section, lineNum, title, description, suggestion, descLen, suggLen)>>
  ELSE <<>>

\* The issues of one section's line mentions, in order.
RECURSIVE SectionIssues(_, _, _, _, _, _, _)
SectionIssues(section, lineMatches, title, description, suggestion, descLen, suggLen) ==
  IF lineMatches = <<>> THEN <<>>
  ELSE PushIfPositive(section, ParseInt(OnlyDigits(Head(lineMatches))),
                      title, description, suggestion, descLen, suggLen)
         \o SectionIssues(section, Tail(lineMatches),
                          title, description, suggestion, descLen, suggLen)

RECURSIVE SectionsIssues(_)
SectionsIssues(sections) ==
  IF sections = <<>> THEN <<>>
  ELSE (IF hasSeverity(Head(sections))
        THEN SectionIssues(Head(sections), MatchAll(Head(sections), LineMentionRe),
               extractTitleFromSection(Head(sections)),
               extractDescriptionFromSection(Head(sections)),
               extractSuggestionFromSection(Head(sections)),
               StrLen(Join(Slice(PlainLines(Split(Head(sections), <<"\n">>)), 0, 3),
                           <<Tk(" ")>>)),
               StrLen(GroupOrEmpty(Head(sections),
                                   Match(Head(sections), SectionSuggestionRe), 1)))
        ELSE <<>>) \o SectionsIssues(Tail(sections))

\* The issues parseStructuredIssues pushes.
parseStructuredIssues(content) == SectionsIssues(SplitRe(content, SectionBreakRe))

----------------------------------------------------------------------------
(* parseIssues: the sort *)

severityOrder(sev) ==
  CASE sev = "critical" -> 0 [] sev = "high" -> 1 [] sev = "medium" -> 2
    [] sev = "low" -> 3 [] sev = "info" -> 4

\* The comparator: a number, or NaN when a line number is NaN.
compare(a, b) ==
  LET severityDiff == severityOrder(a.severity) - severityOrder(b.severity)
  IN  IF severityDiff # 0 THEN Num(severityDiff)
      ELSE IF a.line.nan \/ b.line.nan THEN NaN
      ELSE Num(a.line.v - b.line.v)

\* Array.prototype.sort reads a NaN from the comparator as +0.
After(a, b) == ~compare(a, b).nan /\ compare(a, b).v > 0

\* Two stable sorts; they agree whenever the comparator is consistent, and
\* the order is implementation-defined when it is not.
\* "right": each element goes after the last element that is not after it.
RECURSIVE InsertRight(_, _)
InsertRight(sorted, x) ==
  IF sorted = <<>> THEN <<x>>
  ELSE IF After(sorted[Len(sorted)], x)
       THEN InsertRight(SubSeq(sorted, 1, Len(sorted) - 1), x) \o <<sorted[Len(sorted)]>>
       ELSE sorted \o <<x>>
\* "left": each element goes before the first element that is after it.
RECURSIVE InsertLeft(_, _)
InsertLeft(sorted, x) ==
  IF sorted = <<>> THEN <<x>>
  ELSE IF After(Head(sorted), x) THEN <<x>> \o sorted
       ELSE <<Head(sorted)>> \o InsertLeft(Tail(sorted), x)

RECURSIVE SortFrom(_, _, _)
SortFrom(sorted, xs, how) ==
  IF xs = <<>> THEN sorted
  ELSE SortFrom(IF how = "right" THEN InsertRight(sorted, Head(xs))
                ELSE InsertLeft(sorted, Head(xs)),
                Tail(xs), how)

\* A sort that first drops every issue whose (file, line, title) an earlier
\* issue of the array already has.
SortDeduplicating(xs, how) ==
  LET same(a, b) == a.file = b.file /\ a.line = b.line /\ a.title = b.title
      marked == [i \in 1..Len(xs) |->
                   [x |-> xs[i], dup |-> \E j \in 1..(i - 1) : same(xs[j], xs[i])]]
      kept == SelectSeq(marked, LAMBDA e : ~e.dup)
  IN  SortFrom(<<>>, [i \in 1..Len(kept) |-> kept[i].x], how)

Sort(xs, how) == SortFrom(<<>>, xs, how)

----------------------------------------------------------------------------
(* parseReviewContent: the document-level extractors *)

\* new Date().toISOString() at the instant now (24 code units); the clock
\* has moved on between two calls.
IsoNames == <<"iso-1", "iso-2", "iso-3", "iso-4", "iso-5", "iso-6">>
IsoString(now) == <<[c |-> IsoNames[now], n |-> 24]>>

AICodeReview == Str(<<"AI", " ", "Code", " ", "Review">>)

\* NewResult with an issues array shared with the document returned before.
NewResultShared(fileName, now) ==
  [ title |-> IF fileName = Undefined \/ fileName = <<>> THEN AICodeReview ELSE fileName,
    timestamp |-> IsoString(now),
    branch |-> Str(<<"main">>),
    repository |-> Str(<<"unknown">>),
    provider |-> Str(<<"AI">>),
    model |-> Str(<<"unknown">>),
    summary |-> <<>>,
    issues |-> IF DOMAIN returned = {"none"} THEN <<>> ELSE returned.issues,
    codeContent |-> <<>>,
    diffContent |-> <<>> ]

\* NewResult with another default branch.
NewResultMaster(fileName, now) ==
  [ title |-> IF fileName = Undefined \/ fileName = <<>> THEN AICodeReview ELSE fileName,
    timestamp |-> IsoString(now),
    branch |-> Str(<<"master">>),
    repository |-> Str(<<"unknown">>),
    provider |-> Str(<<"AI">>),
    model |-> Str(<<"unknown">>),
    summary |-> <<>>,
    issues |-> <<>>,
    codeContent |-> <<>>,
    diffContent |-> <<>> ]

\* The object literal parseReviewContent starts from; fileName is Undefined
\* when the argument is omitted, and '' is falsy as well.
NewResult(fileName, now) ==
  [ title |-> IF fileName = Undefined \/ fileName = <<>> THEN AICodeReview ELSE fileName,
    timestamp |-> IsoString(now),
    branch |-> Str(<<"main">>),
    repository |-> Str(<<"unknown">>),
    provider |-> Str(<<"AI">>),
    model |-> Str(<<"unknown">>),
    summary |-> <<>>,
    issues |-> <<>>,
    codeContent |-> <<>>,
    diffContent |-> <<>> ]

\* /\*\*Label\*\*: (.+)/i  and  /Label: (.+)/i
BoldLabelRe(words) ==
  Cat(<<Lit(<<"*", "*">>), LitI(words), Lit(<<"*", "*", ":", " ">>), Grp(1, Plus(Dot))>>)
PlainLabelRe(words) == Cat(<<LitI(words), Lit(<<":", " ">>), Grp(1, Plus(Dot))>>)

\* a || b || ... over match results: the first that matched.
OrMatch(m, other) == IF m.ok THEN m ELSE other
RECURSIVE FirstMatch(_, _)
FirstMatch(content, res) ==
  IF res = <<>> THEN NoMatch
  ELSE OrMatch(Match(content, Head(res)), FirstMatch(content, Tail(res)))

\* if (match) result.field = match[1].trim(): the trimmed group 1 of the
\* first expression that matches, else the value the field has (dflt).
TrimmedOr(content, m, dflt) == IF m.ok THEN Trim(Group(content, m, 1)) ELSE dflt
Labelled(content, res, dflt) == TrimmedOr(content, FirstMatch(content, res), dflt)

\* The same expressions with the plain label tried before the bold one.
MetadataResPlainFirst ==
  [ timestamp |-> << PlainLabelRe(<<"Generated", " ", "on">>),
                     BoldLabelRe(<<"Generated", " ", "on">>), BoldLabelRe(<<"Date">>) >>,
    branch |-> << PlainLabelRe(<<"Branch">>), BoldLabelRe(<<"Branch">>) >>,
    repository |-> << PlainLabelRe(<<"Repository">>), BoldLabelRe(<<"Repository">>) >>,
    provider |-> << PlainLabelRe(<<"Provider">>), BoldLabelRe(<<"AI", " ", "Provider">>) >>,
    model |-> << PlainLabelRe(<<"Model">>), BoldLabelRe(<<"Model">>) >>,
    title |-> << Cat(<<Bol, Lit(<<"#">>), Plus(Space), Grp(1, Plus(Dot)), Eol>>) >> ]

\* The expressions tried for each field, in their order; the title's is
\* /^#\s+(.+)$/m.
MetadataRes ==
  [ timestamp |-> << BoldLabelRe(<<"Generated", " ", "on">>),
                     PlainLabelRe(<<"Generated", " ", "on">>), BoldLabelRe(<<"Date">>) >>,
    branch |-> << BoldLabelRe(<<"Branch">>), PlainLabelRe(<<"Branch">>) >>,
    repository |-> << BoldLabelRe(<<"Repository">>), PlainLabelRe(<<"Repository">>) >>,
    provider |-> << BoldLabelRe(<<"AI", " ", "Provider">>), PlainLabelRe(<<"Provider">>) >>,
    model |-> << BoldLabelRe(<<"Model">>), PlainLabelRe(<<"Model">>) >>,
    title |-> << Cat(<<Bol, Lit(<<"#">>), Plus(Space), Grp(1, Plus(Dot)), Eol>>) >> ]

parseMetadata(content, data) ==
  [ data EXCEPT
      !.timestamp = Labelled(content, MetadataRes.timestamp, @),
      !.branch = Labelled(content, MetadataRes.branch, @),
      !.repository = Labelled(content, MetadataRes.repository, @),
      !.provider = Labelled(content, MetadataRes.provider, @),
      !.model = Labelled(content, MetadataRes.model, @),
      !.title = Labelled(content, MetadataRes.title, @) ]

\* /## Heading\s*\n([\s\S]*?)(?=\n##|\n\*\*|$)/i
SummaryRe(words) ==
  Cat(<<Lit(<<"#", "#", " ">>), LitI(words), Star(Space), Lit(<<"\n">>),
        Grp(1, StarLazy(AnyCh)),
        Look(Alt(<<Lit(<<"\n", "#", "#">>), Lit(<<"\n", "*", "*">>), End>>))>>)
\* The headings with Overview tried first.
summaryMatchesOverviewFirst ==
  << SummaryRe(<<"Overview">>), SummaryRe(<<"Summary">>),
     SummaryRe(<<"Review", " ", "Summary">>) >>
summaryMatches ==
  << SummaryRe(<<"Summary">>), SummaryRe(<<"Review", " ", "Summary">>),
     SummaryRe(<<"Overview">>) >>

\* The cleaned text under the first summary heading that matches; <<>> when
\* none does.
SummaryUnderHeading(content) ==
  cleanMarkdown(GroupOrEmpty(content, FirstMatch(content, summaryMatches), 1))

\* The cleaned content.split('\n\n')[1]; <<>> when it is missing or empty.
SecondOrEmpty(paragraphs) == IF Len(paragraphs) >= 2 THEN paragraphs[2] ELSE <<>>
SummaryParagraph(content) == cleanMarkdown(SecondOrEmpty(Split(content, <<"\n", "\n">>)))

\* if (!result.summary): the paragraph is used when no heading matched or
\* the heading's cleaned text is empty.
parseSummary(content, data) ==
  [ data EXCEPT
      !.summary = OrText(Prefix(SummaryUnderHeading(content), 500),
                         Prefix(SummaryParagraph(content), 300)) ]

\* \w : a letter, a digit or '_' (every token that is not punctuation).
WordCh == NotCh(Units \ Digits)

\* /```diff\n([\s\S]*?)\n```/  and  /```\n([\s\S]*?)\n```/
DiffRes ==
  << Cat(<<Lit(<<"bq", "bq", "bq", "diff", "\n">>), Grp(1, StarLazy(AnyCh)),
           Lit(<<"\n", "bq", "bq", "bq">>)>>),
     Cat(<<Lit(<<"bq", "bq", "bq", "\n">>), Grp(1, StarLazy(AnyCh)),
           Lit(<<"\n", "bq", "bq", "bq">>)>>) >>

\* /```(\w+)?\s*(?:\/\/\s*(.+))?\n([\s\S]*?)\n```/g
codeBlockPattern ==
  Cat(<<Lit(<<"bq", "bq", "bq">>), Opt(Grp(1, Plus(WordCh))), Star(Space),
        Opt(Cat(<<Lit(<<"/", "/">>), Star(Space), Grp(2, Plus(Dot))>>)), Lit(<<"\n">>),
        Grp(3, StarLazy(AnyCh)), Lit(<<"\n", "bq", "bq", "bq">>)>>)

\* An assignment that keeps the value a key already has.
PutIfAbsent(obj, key, value) ==
  [k \in (DOMAIN obj) \cup {key} |-> IF k \in DOMAIN obj THEN obj[k] ELSE value]

\* obj[key] = value
Put(obj, key, value) ==
  [k \in (DOMAIN obj) \cup {key} |-> IF k = key THEN value ELSE obj[k]]

\* The body of the loop without its first branch: the filename comment is
\* not looked at.
CodeBlockByLanguage(codeContent, language, fileName, code) ==
  IF language # Undefined /\ language # <<Tk("diff")>>
  THEN Put(codeContent,
           Str(<<"code", ".",
                 IF Len(language) = 1 THEN getExtensionForLanguage(language[1].c)
                 ELSE "txt">>),
           code)
  ELSE codeContent

\* The body of the while loop for one match: the object after it.
CodeBlock(codeContent, language, fileName, code) ==
  IF fileName # Undefined THEN Put(codeContent, fileName, code)
  ELSE IF language # Undefined /\ language # <<Tk("diff")>>
       THEN Put(codeContent,
                Str(<<"code", ".",
                      IF Len(language) = 1 THEN getExtensionForLanguage(language[1].c)
                      ELSE "txt">>),
                code)
       ELSE codeContent

\* The while loop over codeBlockPattern.exec(content).
RECURSIVE CodeBlocksFrom(_, _, _)
RECURSIVE CodeBlocksNext(_, _, _)
CodeBlocksFrom(content, from, codeContent) ==
  CodeBlocksNext(content, Exec(codeBlockPattern, content, from), codeContent)
CodeBlocksNext(content, match, codeContent) ==
  IF ~match.ok THEN codeContent
  ELSE CodeBlocksFrom(content, match.e,
         CodeBlock(codeContent, Group(content, match, 1), Group(content, match, 2),
                   Group(content, match, 3)))

\* if (diffMatch) result.diffContent = diffMatch[1]
GroupOr(content, m, k, dflt) == IF m.ok THEN Group(content, m, k) ELSE dflt

parseCodeContent(content, data) ==
  [ data EXCEPT
      !.diffContent = GroupOr(content, FirstMatch(content, DiffRes), 1, @),
      !.codeContent = CodeBlocksFrom(content, 1, @) ]

----------------------------------------------------------------------------
(* parseReviewFile *)

\* path.basename returning the whole path.
BasenameWhole(filePath) == Str(filePath)

\* A path is the sequence of its components; path.basename is the last.
Basename(filePath) == IF filePath = <<>> THEN <<>> ELSE Str(<<filePath[Len(filePath)]>>)

Missing == <<[c |-> "ENOENT", n |-> 0]>>
NotFound == "Review file not found"

----------------------------------------------------------------------------
(* The inputs *)

MaxBlocks == 2
MaxCalls == 3

\* The blocks documents are made of; a document is up to MaxBlocks blocks
\* joined by "\n".
BoldTagBlock ==
  Str(<<"*", "*", "[", "CRITICAL", "]", " ", "SQL", " ", "Injection", " ", "(", "Line", " ",
        "4", "2", ")", "*", "*">>)
LineZeroBlock ==
  Str(<<"*", "*", "[", "HIGH", "]", " ", "Leak", " ", "(", "Line", " ", "0", ")", "*", "*">>)
EmojiBlock ==
  Str(<<"u274C", " ", "*", "*", "Critical", " ", "Issue", " ", "(", "Line", " ", "4", "2", ")",
        "*", "*", ":", " ", "Description">>)
ModerateBlock ==
  Str(<<"u274C", " ", "*", "*", "Moderate", " ", "issue", " ", "(", "Line", " ", "5", ")",
        "*", "*", ":", " ", "s", "low", " ", "loop">>)
EmojiDigitBlock ==
  Str(<<"uD83D", "uDD35", " ", "*", "*", "low", " ", "auth", " ", "(", "7", ")", "*", "*", ":",
        " ", "9", " ", "things">>)
HeadingBlock ==
  Str(<<"#", "#", "#", " ", "HIGH", " ", "-", " ", "Leak", " ", "(", "app", ".", "js", ":",
        "1", "2", ")">>)
LabelBlock ==
  Str(<<"*", "*", "MEDIUM", "*", "*", ":", " ", "design", " ", "-", " ", "Line", " ", "3">>)
SuggestionBlock ==
  Str(<<"Suggestion", ":", " ", "use", " ", "*", "*", "parameterized", "*", "*", " ",
        "queries">>)
LongFixBlock == Str(<<"Fix", ":", " ">>) \o <<Xs(450)>>
LongTextBlock == <<Xs(350)>>
ContextTaskBlock ==
  Str(<<"Context", ":", " ", "a", "\n", "Task", ":", " ", "b", "\n">>)
AgentPromptBlock ==
  Str(<<"Agent", " ", "Prompt", ":", " ", "bq", "bq", "bq", "do", " ", "it", "bq", "bq",
        "bq">>)
FindingsBlock ==
  Str(<<"#", "#", " ", "Findings", "\n", "Critical", " ", "issue", " ", "here", ",", " ",
        "see", " ", "line", " ", "1", "2", " ", "for", " ", "details">>)
BranchBlock == Str(<<"*", "*", "Branch", "*", "*", ":", " ", "dev">>)
SummaryBlock == Str(<<"#", "#", " ", "Summary">>)
LongSummaryBlock == <<Xs(600)>>
ParagraphBlock == Str(<<"\n">>) \o <<Xs(320)>>

Blocks ==
  { BoldTagBlock, LineZeroBlock, EmojiBlock, ModerateBlock, EmojiDigitBlock, HeadingBlock,
    LabelBlock, SuggestionBlock, LongFixBlock, LongTextBlock, ContextTaskBlock,
    AgentPromptBlock, FindingsBlock, BranchBlock, SummaryBlock, LongSummaryBlock, ParagraphBlock }

RECURSIVE DocumentsOf(_)
DocumentsOf(n) ==
  IF n = 0 THEN {<<>>}
  ELSE Blocks \cup {d \o Str(<<"\n">>) \o b : d \in DocumentsOf(n - 1) \ {<<>>}, b \in Blocks}
         \cup {<<>>}
Documents == DocumentsOf(MaxBlocks)

----------------------------------------------------------------------------
(* The state *)

vars ==
  <<engine, call, pc, result, pattern, lastIndex, log, returned, error, history, cleanings,
    classified>>

NoValue == [none |-> TRUE]
Engines == {"right", "left"}

ContentCall(content, fileName, now) ==
  [kind |-> "content", filePath |-> <<>>, file |-> Missing, content |-> content,
   fileName |-> fileName, now |-> now]
\* parseReviewFile(filePath) where the file system holds file at filePath.
FileCall(filePath, file, now) ==
  [kind |-> "file", filePath |-> filePath, file |-> file, content |-> <<>>,
   fileName |-> Undefined, now |-> now]

\* The calls of the single-call specification.
Calls == {ContentCall(d, Undefined, 1) : d \in Documents}

InitWith(calls) ==
  /\ engine \in Engines
  /\ call \in calls
  /\ pc = "idle"
  /\ returned = NoValue
  /\ error = "none"
  /\ result = NewResult(Undefined, 1)
  /\ pattern = 1
  /\ lastIndex = 1
  /\ log = <<>>
  /\ history = {}
  /\ cleanings = <<>>
  /\ classified = NoValue

Init == InitWith(Calls)

\* The calls of the many-call specification: a few documents, with and
\* without a file name, and files that exist or not.
IssuesDocument ==
  BranchBlock \o Str(<<"\n">>) \o BoldTagBlock \o Str(<<"\n">>) \o EmojiBlock
DatedDocument ==
  Str(<<"Generated", " ", "on", ":", " ", "2", "0", "2", "4", "\n">>) \o FindingsBlock
ReviewPath == <<"tmp", "review.md">>
GonePath == <<"tmp", "gone.md">>
CallInputs ==
  { ContentCall(IssuesDocument, Undefined, 1),
    ContentCall(IssuesDocument, Str(<<"review.md">>), 1),
    ContentCall(DatedDocument, Undefined, 1),
    ContentCall(<<>>, Undefined, 1),
    FileCall(ReviewPath, IssuesDocument, 1),
    FileCall(GonePath, Missing, 1) }

InitCalls == InitWith(CallInputs)

----------------------------------------------------------------------------
(* The operations *)

\* parseReviewContent(content, fileName): lines 48-59, the fresh result.
ParseReviewContent ==
  /\ pc = "idle"
  /\ call.kind = "content"
  /\ result' = NewResult(call.fileName, call.now)
  /\ pc' = "metadata"
  /\ returned' = NoValue
  /\ error' = "none"
  /\ UNCHANGED <<engine, call, pattern, lastIndex, log, history, cleanings, classified>>

\* parseReviewFile(filePath) when fs.existsSync(filePath) is false.
ParseReviewFileMissing ==
  /\ pc = "idle"
  /\ call.kind = "file"
  /\ call.file = Missing
  /\ pc' = "failed"
  /\ error' = NotFound
  /\ returned' = NoValue
  /\ UNCHANGED <<engine, call, result, pattern, lastIndex, log, history, cleanings, classified>>

\* parseReviewFile(filePath) on an existing file: read it and call
\* parseReviewContent(content, path.basename(filePath)).
ParseReviewFileFound ==
  /\ pc = "idle"
  /\ call.kind = "file"
  /\ call.file # Missing
  /\ call' = [call EXCEPT !.content = call.file, !.fileName = Basename(call.filePath)]
  /\ result' = NewResult(Basename(call.filePath), call.now)
  /\ pc' = "metadata"
  /\ returned' = NoValue
  /\ error' = "none"
  /\ UNCHANGED <<engine, pattern, lastIndex, log, history, cleanings, classified>>

ParseMetadata ==
  /\ pc = "metadata"
  /\ result' = parseMetadata(call.content, result)
  /\ pc' = "summary"
  /\ UNCHANGED <<engine, call, pattern, lastIndex, log, returned, error, history, cleanings, classified>>

\* parseSummary, then parseIssues up to its loop: fresh patterns.
ParseSummary ==
  /\ pc = "summary"
  /\ result' = parseSummary(call.content, result)
  /\ pc' = "issues"
  /\ pattern' = 1
  /\ lastIndex' = 1
  /\ log' = <<>>
  /\ UNCHANGED <<engine, call, returned, error, history, cleanings, classified>>

\* The iteration with a null result that empties the issues pushed so far.
ExecMatchResetting ==
  /\ pc = "issues"
  /\ pattern <= Len(issuePatterns)
  /\ \E match \in {PatternExec(pattern, call.content, lastIndex)} :
       /\ match.ok
       /\ \E issue \in {extractIssueDetails(call.content, match)} :
            IF issue.threw
            THEN /\ pc' = "failed"
                 /\ error' = "TypeError"
                 /\ UNCHANGED <<result, lastIndex, log>>
            ELSE /\ result' = IF issue.value.null THEN [result EXCEPT !.issues = <<>>]
                              ELSE [result EXCEPT !.issues = Append(@, issue.value)]
                 /\ lastIndex' = match.e
                 /\ log' = Append(log, [pattern |-> pattern, at |-> match.i,
                                        severity |-> Group(call.content, match, 1),
                                        pushed |-> ~issue.value.null])
                 /\ UNCHANGED <<pc, error>>
  /\ UNCHANGED <<engine, call, pattern, returned, history, cleanings, classified>>

\* One iteration of the while loop: pattern.exec found a match.
ExecMatch ==
  /\ pc = "issues"
  /\ pattern <= Len(issuePatterns)
  /\ \E match \in {PatternExec(pattern, call.content, lastIndex)} :
       /\ match.ok
       /\ \E issue \in {extractIssueDetails(call.content, match)} :
            IF issue.threw
            THEN /\ pc' = "failed"
                 /\ error' = "TypeError"
                 /\ UNCHANGED <<result, lastIndex, log>>
            ELSE /\ result' = IF issue.value.null THEN result
                              ELSE [result EXCEPT !.issues = Append(@, issue.value)]
                 /\ lastIndex' = match.e
                 /\ log' = Append(log, [pattern |-> pattern, at |-> match.i,
                                        severity |-> Group(call.content, match, 1),
                                        pushed |-> ~issue.value.null])
                 /\ UNCHANGED <<pc, error>>
  /\ UNCHANGED <<engine, call, pattern, returned, history, cleanings, classified>>

\* pattern.exec returned null: lastIndex is reset and the next pattern runs.
ExecNull ==
  /\ pc = "issues"
  /\ pattern <= Len(issuePatterns)
  /\ ~PatternExec(pattern, call.content, lastIndex).ok
  /\ pattern' = pattern + 1
  /\ lastIndex' = 1
  /\ UNCHANGED <<engine, call, pc, result, log, returned, error, history, cleanings, classified>>

\* The fallback scanner run unconditionally.
AlwaysFallback == TRUE

\* if (result.issues.length === 0)
NeedsFallback == Len(result.issues) = 0

\* The end of parseIssues: the fallback scanner when no issue was pushed,
\* then the sort.
FinishIssues ==
  /\ pc = "issues"
  /\ pattern > Len(issuePatterns)
  /\ LET issues == IF NeedsFallback THEN result.issues \o parseStructuredIssues(call.content)
                   ELSE result.issues
     IN  result' = [result EXCEPT !.issues = Sort(issues, engine)]
  /\ log' = IF NeedsFallback THEN Append(log, [pattern |-> 0, at |-> 0, severity |-> <<>>,
                                               pushed |-> FALSE])
            ELSE log
  /\ pc' = "code"
  /\ UNCHANGED <<engine, call, pattern, lastIndex, returned, error, history, cleanings, classified>>

\* parseCodeContent and the return.
ParseCodeContent ==
  /\ pc = "code"
  /\ result' = parseCodeContent(call.content, result)
  /\ returned' = result'
  /\ pc' = "done"
  /\ UNCHANGED <<engine, call, pattern, lastIndex, log, error, history, cleanings, classified>>

\* The caller takes what the call returned or threw, and makes its next
\* call, if any, at a later instant.
Return ==
  /\ pc \in {"done", "failed"}
  /\ history' = history \cup {[call |-> call, returned |-> returned, error |-> error]}
  /\ IF Cardinality(history') < MaxCalls
     THEN /\ \E c \in CallInputs : call' = [c EXCEPT !.now = Cardinality(history') + 1]
          /\ pc' = "idle"
     ELSE /\ call' = call
          /\ pc' = "over"
  /\ UNCHANGED <<engine, result, pattern, lastIndex, log, returned, error, cleanings, classified>>

Next ==
  \/ ParseReviewContent
  \/ ParseMetadata
  \/ ParseSummary
  \/ ExecMatch
  \/ ExecNull
  \/ FinishIssues
  \/ ParseCodeContent

Spec == Init /\ [][Next]_vars

\* cleanMarkdown taken alone: it is applied to a text, then to its own
\* result, MaxCleanings times in all.
MaxText == 3
MaxCleanings == 2
TextUnits == {"*", "-", " ", "a", "#", "bq", "\n"}
RECURSIVE TextsOf(_)
TextsOf(n) ==
  IF n = 0 THEN {<<>>}
  ELSE TextsOf(n - 1) \cup {Append(t, Tk(c)) : t \in TextsOf(n - 1), c \in TextUnits}
Texts == TextsOf(MaxText)

CleanMarkdown ==
  /\ pc = "idle"
  /\ IF cleanings = <<>>
     THEN \E text \in Texts : cleanings' = <<text, cleanMarkdown(text)>>
     ELSE /\ Len(cleanings) <= MaxCleanings
          /\ cleanings' = Append(cleanings, cleanMarkdown(cleanings[Len(cleanings)]))
  /\ UNCHANGED <<engine, call, pc, result, pattern, lastIndex, log, returned, error, history, classified>>

SpecClean ==
  /\ InitWith({ContentCall(<<>>, Undefined, 1)})
  /\ [][CleanMarkdown]_vars

\* Documents made of one announcement of the first pattern and a
\* suggestion line: the severity word in several letter cases, with and
\* without brackets, plain titles and plain suggestion texts.
SeveritySpellings == {"CRITICAL", "High", "medium", "LOW", "Info"}
PlainTitles == {<<"SQL", " ", "Injection">>, <<"Leak">>, <<"Leak", " ", "(", "app", ")">>}
LineDigits == {<<"4", "2">>, <<"7">>, <<"0">>}
PlainSuggestions ==
  {<<"use", " ", "parameterized", " ", "queries">>, <<"close", " ", "it">>}
AnnouncementParts ==
  [S : SeveritySpellings, brackets : BOOLEAN, T : PlainTitles, N : LineDigits,
   X : PlainSuggestions]
Announcement(a) ==
  Str(<<"*", "*">> \o (IF a.brackets THEN <<"[", a.S, "]">> ELSE <<a.S>>) \o <<" ">> \o a.T
        \o <<" ", "(", "Line", " ">> \o a.N \o <<")", "*", "*", "\n", "Suggestion", ":", " ">>
        \o a.X)

SpecAnnouncement ==
  /\ InitWith({ContentCall(Announcement(a), Undefined, 1) : a \in AnnouncementParts})
  /\ [][Next]_vars

\* Documents made of fenced blocks: up to MaxFences segments joined by "\n".
\* A fenced block has a language label (or none), a "// name" comment on
\* its fence line (or none), and a body; the body of NoteFence starts with a
\* comment line of its own. BoldTagBlock is a segment that is no block.
MaxFences == 3
Fence(label, comment, lead, code) ==
  [fence |-> TRUE, label |-> Str(label), comment |-> Str(comment), lead |-> Str(lead),
   code |-> Str(code)]
DiffFence == Fence(<<"diff">>, <<>>, <<>>, <<"+", "foo">>)
NamedFence == Fence(<<"js">>, <<"utils", ".", "js">>, <<>>, <<"const", " ", "x", "=", "1", ";">>)
NamedAgainFence == Fence(<<"ts">>, <<"utils", ".", "js">>, <<>>, <<"const", " ", "y", "=", "2", ";">>)
JsFence == Fence(<<"js">>, <<>>, <<>>, <<"b">>)
FooFence == Fence(<<"foo">>, <<>>, <<>>, <<"c">>)
ScriptFence == Fence(<<"JavaScript">>, <<>>, <<>>, <<"d">>)
PlainFence == Fence(<<>>, <<>>, <<>>, <<"plain">>)
NoteFence == Fence(<<"js">>, <<>>, <<"note", ".", "js">>, <<"e">>)
Announced == [fence |-> FALSE, label |-> <<>>, comment |-> <<>>, lead |-> <<>>,
              code |-> BoldTagBlock]
Segments ==
  { DiffFence, NamedFence, NamedAgainFence, JsFence, FooFence, ScriptFence, PlainFence,
    NoteFence, Announced }

\* The text between the fences of a block, and the text of a segment.
BodyOf(f) ==
  IF f.lead = <<>> THEN f.code ELSE Str(<<"/", "/", " ">>) \o f.lead \o Str(<<"\n">>) \o f.code
SegmentText(f) ==
  IF ~f.fence THEN f.code
  ELSE Str(<<"bq", "bq", "bq">>) \o f.label
         \o (IF f.comment = <<>> THEN <<>> ELSE Str(<<" ", "/", "/", " ">>) \o f.comment)
         \o Str(<<"\n">>) \o BodyOf(f) \o Str(<<"\n", "bq", "bq", "bq">>)

RECURSIVE SegmentsOf(_)
SegmentsOf(n) ==
  IF n = 0 THEN {<<>>}
  ELSE SegmentsOf(n - 1) \cup {Append(d, f) : d \in SegmentsOf(n - 1), f \in Segments}
FencedParts == SegmentsOf(MaxFences)
RECURSIVE Fenced(_)
Fenced(parts) ==
  IF parts = <<>> THEN <<>>
  ELSE IF Len(parts) = 1 THEN SegmentText(parts[1])
  ELSE SegmentText(parts[1]) \o Str(<<"\n">>) \o Fenced(Tail(parts))

SpecFences ==
  /\ InitWith({ContentCall(Fenced(parts), Undefined, 1) : parts \in FencedParts})
  /\ [][Next]_vars

\* Documents for the fallback scanner: up to MaxSections blocks joined by
\* "\n". A block that starts with "## " opens a section; PlainSection has
\* no heading and continues the section before it.
MaxSections == 2
NotesSection ==
  Str(<<"#", "#", " ", "Notes", "\n", "Info", ":", " ", "see", " ", "line", " ", "5">>)
LineZeroSection ==
  Str(<<"#", "#", " ", "Load", "\n", "high", " ", "load", " ", "at", " ", "line", " ", "0">>)
TwoMentionsSection ==
  Str(<<"#", "#", " ", "Perf", "\n", "s", "low", " ", "at", " ", "LINE", " ", "7", " ", "and",
        " ", "line", " ", "8">>)
EmojiSection ==
  Str(<<"#", "#", " ", "uD83D", "uDFE0", " ", "Leak", "\n", "see", " ", "line", " ", "3", "\n",
        "Fix", ":", " ", "close", " ", "it">>)
PlainSection == Str(<<"medium", " ", "risk", " ", "near", " ", "line", " ", "4">>)
NoSignalSection == Str(<<"#", "#", " ", "Intro", "\n", "see", " ", "line", " ", "9">>)
TitleOnlySection == Str(<<"#", "#", " ", "critical", " ", "line", " ", "6">>)
BareSection ==
  Str(<<"#", "#", " ", "\n", "high", " ", "at", " ", "line", " ", "1", "\n", "Fix", ":">>)
InfoTagBlock ==
  Str(<<"*", "*", "[", "INFO", "]", " ", "Note", " ", "(", "Line", " ", "2", ")", "*", "*">>)
SectionBlocks ==
  { FindingsBlock, NotesSection, LineZeroSection, TwoMentionsSection, EmojiSection,
    PlainSection, NoSignalSection, TitleOnlySection, BareSection, InfoTagBlock,
    BoldTagBlock }
RECURSIVE SectionDocuments(_)
SectionDocuments(n) ==
  IF n = 0 THEN {<<>>}
  ELSE SectionDocuments(n - 1)
         \cup {IF d = <<>> THEN b ELSE d \o Str(<<"\n">>) \o b :
                d \in SectionDocuments(n - 1), b \in SectionBlocks}

SpecSections ==
  /\ InitWith({ContentCall(d, Undefined, 1) : d \in SectionDocuments(MaxSections)})
  /\ [][Next]_vars

\* The classifiers taken alone: normalizeSeverity and
\* inferSeverityFromContent applied to a text, inferCategoryFromContent to
\* the text followed by a title, as extractIssueContext calls it. A text is
\* up to MaxWords words separated by spaces.
MaxWords == 2
Words ==
  { <<"Critical">>, <<"HIGH">>, <<"medium">>, <<"low">>, <<"Info">>, <<"Moderate">>,
    <<"uD83D", "uDD34">>, <<"uD83D", "uDFE0">>, <<"uD83D", "uDFE1">>, <<"uD83D", "uDD35">>,
    <<"u2139", "uFE0F">>, <<"s", "low">>, <<"Security">>, <<"auth">>, <<"u26A1">>,
    <<"design">>, <<"test">>, <<"docs">>, <<"comment">>, <<"Leak">>, <<"s">> }
RECURSIVE WordsOf(_)
WordsOf(n) ==
  IF n = 0 THEN {<<>>}
  ELSE WordsOf(n - 1)
         \cup {IF t = <<>> THEN Str(w) ELSE t \o Str(<<" ">>) \o Str(w) :
                t \in WordsOf(n - 1), w \in Words}
Titles == {<<>>, Str(<<"auth">>), Str(<<"docs">>), Str(<<"Leak">>), Str(<<"low">>)}

Classify ==
  /\ pc = "idle"
  /\ classified = NoValue
  /\ \E context \in WordsOf(MaxWords), title \in Titles :
       classified' = [ context |-> context,
                       title |-> title,
                       normalized |-> normalizeSeverity(context),
                       severity |-> inferSeverityFromContent(context),
                       category |-> inferCategoryFromContent(context \o title) ]
  /\ UNCHANGED <<engine, call, pc, result, pattern, lastIndex, log, returned, error, history,
                 cleanings>>

SpecClassify ==
  /\ InitWith({ContentCall(<<>>, Undefined, 1)})
  /\ [][Classify]_vars

\* Documents with a front matter: up to MaxFront lines joined by "\n". A
\* label line records the field it labels, the rank of the expression that
\* reads it (1 is tried first) and the value written after the label; the
\* other lines (field "none") are summary headings, paragraphs and an issue
\* announcement.
MaxFront == 2
LabelLine(text, field, rank, value) ==
  [text |-> Str(text), field |-> field, rank |-> rank, value |-> Str(value)]
OtherLine(text) == [text |-> text, field |-> "none", rank |-> 0, value |-> <<>>]
LabelLines ==
  { LabelLine(<<"*", "*", "Branch", "*", "*", ":", " ", "dev">>, "branch", 1, <<"dev">>),
    LabelLine(<<"Branch", ":", " ", "topic">>, "branch", 2, <<"topic">>),
    LabelLine(<<"*", "*", "Model", "*", "*", ":", " ", "gpt", " ">>, "model", 1, <<"gpt">>),
    LabelLine(<<"Provider", ":", " ", "acme">>, "provider", 2, <<"acme">>),
    LabelLine(<<"*", "*", "AI", " ", "Provider", "*", "*", ":", " ", "bolt">>, "provider", 1,
              <<"bolt">>),
    LabelLine(<<"Generated", " ", "on", ":", " ", "today">>, "timestamp", 2, <<"today">>),
    LabelLine(<<"*", "*", "Date", "*", "*", ":", " ", "friday">>, "timestamp", 3, <<"friday">>),
    LabelLine(<<"repository", ":", " ", "repo", " ">>, "repository", 2, <<"repo">>),
    LabelLine(<<"#", " ", "Audit">>, "title", 1, <<"Audit">>) }
SummaryHeading ==
  Str(<<"#", "#", " ", "Summary", "\n", "short", " ", "*", "*", "sum", "*", "*">>)
ReviewHeading == Str(<<"#", "#", " ", "review", " ", "summary", "\n", "rev">>)
OverviewHeading == Str(<<"#", "#", " ", "Overview", "\n", "over">>)
LongHeading == Str(<<"#", "#", " ", "Summary", "\n">>) \o <<Xs(600)>>
EmptyHeading == Str(<<"\n", "#", "#", " ", "Summary", "\n">>)
ShortParagraph == Str(<<"\n", "second", " ", "*", "part", "*">>)
OtherLines ==
  { OtherLine(SummaryHeading), OtherLine(ReviewHeading), OtherLine(OverviewHeading),
    OtherLine(LongHeading), OtherLine(EmptyHeading), OtherLine(ShortParagraph),
    OtherLine(ParagraphBlock), OtherLine(BoldTagBlock) }
FrontLines == LabelLines \cup OtherLines
RECURSIVE FrontOf(_)
FrontOf(n) ==
  IF n = 0 THEN {<<>>}
  ELSE FrontOf(n - 1) \cup {Append(d, l) : d \in FrontOf(n - 1), l \in FrontLines}
FrontParts == FrontOf(MaxFront)
RECURSIVE FrontText(_)
FrontText(parts) ==
  IF parts = <<>> THEN <<>>
  ELSE IF Len(parts) = 1 THEN parts[1].text
  ELSE parts[1].text \o Str(<<"\n">>) \o FrontText(Tail(parts))

SpecFrontMatter ==
  /\ InitWith({ContentCall(FrontText(parts), Undefined, 1) : parts \in FrontParts})
  /\ [][Next]_vars

\* Several calls in a row, by content or by path.
NextCalls ==
  \/ ParseReviewContent
  \/ ParseReviewFileMissing
  \/ ParseReviewFileFound
  \/ ParseMetadata
  \/ ParseSummary
  \/ ExecMatch
  \/ ExecNull
  \/ FinishIssues
  \/ ParseCodeContent
  \/ Return

SpecCalls == InitCalls /\ [][NextCalls]_vars

----------------------------------------------------------------------------
(* The properties *)

Severities == {"critical", "high", "medium", "low", "info"}
Categories ==
  {"security", "performance", "architecture", "testing", "documentation", "general"}

\* The issues of the document a finished call returned.
ReturnedIssues == IF pc = "done" THEN returned.issues ELSE <<>>
Indices(xs) == 1..Len(xs)

\* a.line <= b.line in JavaScript: false when either is NaN.
LineLeq(a, b) == ~a.line.nan /\ ~b.line.nan /\ a.line.v <= b.line.v

\* C1: the returned issues are sorted: every adjacent pair (a, b) has
\* severityRank(a) <= severityRank(b) and, when the ranks are equal,
\* a.line <= b.line, whichever strategy produced the issues.
IssuesSorted ==
  \A i \in Indices(ReturnedIssues) \ {Len(ReturnedIssues)} :
    /\ severityOrder(ReturnedIssues[i].severity) <= severityOrder(ReturnedIssues[i + 1].severity)
    /\ severityOrder(ReturnedIssues[i].severity) = severityOrder(ReturnedIssues[i + 1].severity)
         => LineLeq(ReturnedIssues[i], ReturnedIssues[i + 1])

\* C2: every returned issue has an integer line number >= 1, from the primary
\* matcher as well as from the fallback scanner.
LinesPositive ==
  \A i \in Indices(ReturnedIssues) :
    ~ReturnedIssues[i].line.nan /\ ReturnedIssues[i].line.v >= 1

\* C3: every issue, while the document is assembled and when it is returned,
\* has its severity among the five severities and its category among the six
\* categories; no text of the document is stored in either field.
SeverityAndCategoryEnumerated ==
  /\ \A i \in Indices(result.issues) :
       /\ result.issues[i].severity \in Severities
       /\ result.issues[i].category \in Categories
  /\ \A i \in Indices(ReturnedIssues) :
       /\ ReturnedIssues[i].severity \in Severities
       /\ ReturnedIssues[i].category \in Categories

\* A returned document holds an issue whose matched severity text is more
\* than a severity word, next to an issue of the fallback-free primary kind.
EnumeratedWitness ==
  /\ pc = "done"
  /\ \E k \in Indices(log) :
       /\ log[k].pushed
       /\ Len(log[k].severity) > 1
       /\ \E i \in Indices(ReturnedIssues) :
            /\ ReturnedIssues[i].src.at = log[k].at
            /\ ReturnedIssues[i].severity = "critical"

\* The fields of ParsedReviewData.
DataFields ==
  { "title", "timestamp", "branch", "repository", "provider", "model", "summary",
    "issues", "codeContent", "diffContent" }

\* C4: parseReviewContent never throws: no call fails, every iteration of the
\* matching loop moves past its match, and a finished call has returned a
\* document with every field present.
NeverThrows ==
  /\ pc # "failed"
  /\ error = "none"
  /\ pc = "issues" /\ pattern <= Len(issuePatterns)
       => \A m \in {PatternExec(pattern, call.content, lastIndex)} :
            m.ok => m.e > lastIndex /\ m.e > m.i
  /\ pc = "done"
       => /\ returned # NoValue
          /\ DOMAIN returned = DataFields
          /\ \A f \in DataFields \ {"issues", "codeContent"} : returned[f] # Undefined

\* A call returned although a Context:/Task: block made the extraction of a
\* matched issue throw: the match is in the log and was not pushed.
DroppedIssueWitness ==
  /\ pc = "done"
  /\ returned # NoValue
  /\ Match(call.content, ContextTaskRe).ok
  /\ \E k \in Indices(log) :
       /\ log[k].pattern = 1
       /\ normalizeSeverity(log[k].severity) # None
       /\ ~log[k].pushed

\* The lengths of the cleaned texts parseSummary cuts.
HeadingLength == StrLen(SummaryUnderHeading(call.content))
ParagraphLength == StrLen(SummaryParagraph(call.content))

\* C5 as stated: description, suggestion and summary are at most 300, 400
\* and 500 characters, and a text longer than the cap is cut to exactly the cap.
CutToExactlyTheCap ==
  /\ \A i \in Indices(ReturnedIssues) :
       /\ StrLen(ReturnedIssues[i].description) <= 300
       /\ StrLen(ReturnedIssues[i].suggestion) <= 400
       /\ ReturnedIssues[i].src.descLen > 300 => StrLen(ReturnedIssues[i].description) = 300
       /\ ReturnedIssues[i].src.suggLen > 400 => StrLen(ReturnedIssues[i].suggestion) = 400
  /\ pc = "done"
       => /\ StrLen(returned.summary) <= 500
          /\ HeadingLength > 500 => StrLen(returned.summary) = 500

\* C5, amended: the three caps hold for every input; a text longer than its
\* cut is cut to exactly 300 (description) and 400 (suggestion) for an issue
\* of the primary matcher, to exactly 200 (both) for an issue of the fallback
\* scanner, and the summary to exactly 500 under a heading and to exactly
\* 300 when it is the second paragraph.
LengthCaps ==
  /\ \A i \in Indices(ReturnedIssues) :
       /\ StrLen(ReturnedIssues[i].description) <= 300
       /\ StrLen(ReturnedIssues[i].suggestion) <= 400
       /\ ReturnedIssues[i].src.by = "pattern"
            => /\ ReturnedIssues[i].src.descLen > 300
                    => StrLen(ReturnedIssues[i].description) = 300
               /\ ReturnedIssues[i].src.suggLen > 400
                    => StrLen(ReturnedIssues[i].suggestion) = 400
       /\ ReturnedIssues[i].src.by = "fallback"
            => /\ ReturnedIssues[i].src.descLen > 200
                    => StrLen(ReturnedIssues[i].description) = 200
               /\ ReturnedIssues[i].src.suggLen > 200
                    => StrLen(ReturnedIssues[i].suggestion) = 200
  /\ pc = "done"
       => /\ StrLen(returned.summary) <= 500
          /\ HeadingLength > 500 => StrLen(returned.summary) = 500
          /\ HeadingLength = 0 /\ ParagraphLength > 300 => StrLen(returned.summary) = 300

\* A returned document holds a primary issue whose description was cut at
\* 300 and a summary cut at 500, or a fallback issue cut at 200.
LengthCapsWitness ==
  /\ pc = "done"
  /\ \E i \in Indices(ReturnedIssues) :
       /\ ReturnedIssues[i].src.by = "pattern"
       /\ ReturnedIssues[i].src.descLen > 300
       /\ StrLen(ReturnedIssues[i].description) = 300

\* The calls that have ended: those the caller has taken and the one that
\* has just returned or thrown.
Finished ==
  history \cup (IF pc \in {"done", "failed"}
                THEN {[call |-> call, returned |-> returned, error |-> error]}
                ELSE {})

\* The document mentions a label word, in any letter case.
Mentions(content, word) == \E i \in Indices(content) : SameToken(content[i], word, TRUE)

\* C6: parseReviewContent("") returns no issues, an empty diff, an empty
\* code-block map, an empty summary and the defaults main / unknown / AI /
\* unknown; a metadata field whose label is absent from the document keeps
\* its default.
EmptyInputAndDefaults ==
  \A h \in Finished :
    h.call.kind = "content"
      => /\ h.error = "none"
         /\ h.call.content = <<>>
              => /\ h.returned.issues = <<>>
                 /\ h.returned.diffContent = <<>>
                 /\ DOMAIN h.returned.codeContent = {}
                 /\ h.returned.summary = <<>>
         /\ ~Mentions(h.call.content, "Branch") => h.returned.branch = Str(<<"main">>)
         /\ ~Mentions(h.call.content, "Repository")
              => h.returned.repository = Str(<<"unknown">>)
         /\ ~Mentions(h.call.content, "Provider") => h.returned.provider = Str(<<"AI">>)
         /\ ~Mentions(h.call.content, "Model") => h.returned.model = Str(<<"unknown">>)

\* The empty document has been parsed, and so has a document that names its
\* branch and nothing else.
EmptyInputWitness ==
  /\ \E h \in Finished :
       /\ h.call.kind = "content"
       /\ h.call.content = <<>>
       /\ h.returned.branch = Str(<<"main">>)
  /\ \E h \in Finished :
       /\ h.call.kind = "content"
       /\ h.returned.branch = Str(<<"dev">>)
       /\ h.returned.model = Str(<<"unknown">>)

\* What parseIssues did: whether the fallback scanner ran, and the matches
\* of the primary patterns that pushed an issue.
RanFallback == \E k \in Indices(log) : log[k].pattern = 0
Pushed == {k \in Indices(log) : log[k].pattern > 0 /\ log[k].pushed}

\* C7: the fallback scanner runs if and only if the four primary patterns
\* pushed no issue, so the issues are all from primary matches or all from
\* the fallback scanner.
FallbackIffNoPrimary ==
  pc \in {"code", "done"}
    => /\ RanFallback <=> Pushed = {}
       /\ Pushed # {}
            => /\ Len(result.issues) = Cardinality(Pushed)
               /\ \A i \in Indices(result.issues) : result.issues[i].src.by = "pattern"
       /\ Pushed = {}
            => \A i \in Indices(result.issues) : result.issues[i].src.by = "fallback"

\* A document whose primary matches all failed was returned with issues of
\* the fallback scanner.
FallbackWitness ==
  /\ pc = "done"
  /\ RanFallback
  /\ \E k \in Indices(log) : log[k].pattern > 0
  /\ \E i \in Indices(ReturnedIssues) : ReturnedIssues[i].src.by = "fallback"

\* The matched severity text holds none of the keywords or emoji of the five
\* severities.
Unnormalizable(text) ==
  /\ \A kw \in Severities : ~Includes(text, <<kw>>)
  /\ \A unit \in {"uDD34", "uDFE0", "uDFE1", "uDD35"} : ~Includes(text, <<"uD83D", unit>>)
  /\ ~Includes(text, <<"u2139", "uFE0F">>)

Discarded == {k \in Indices(log) : log[k].pattern > 0 /\ Unnormalizable(log[k].severity)}

\* C8: a primary match whose severity text cannot be normalized is
\* discarded: no issue is pushed for it, nothing is thrown, and every match
\* of every pattern is still processed.
UnnormalizableDiscarded ==
  /\ pc # "failed"
  /\ \A k \in Discarded :
       /\ ~log[k].pushed
       /\ \A i \in Indices(result.issues) :
            result.issues[i].src.by = "pattern" => result.issues[i].src.at # log[k].at
  /\ pc \in {"code", "done"}
       => \A p \in Indices(issuePatterns) :
            Cardinality({k \in Indices(log) : log[k].pattern = p})
              = Len(MatchAll(call.content, issuePatterns[p].re))

\* A returned document had a match discarded for its severity text, and a
\* later match of the same pattern pushed.
DiscardedWitness ==
  /\ pc = "done"
  /\ \E k \in Discarded :
       \E j \in Indices(log) :
         j > k /\ log[j].pattern = log[k].pattern /\ log[j].pushed

\* Two documents are equal in every field but the timestamp.
SameButTimestamp(a, b) ==
  /\ DOMAIN a = DOMAIN b
  /\ \A f \in DOMAIN a \ {"timestamp"} : a[f] = b[f]

\* C9: parseReviewFile on a missing path throws "Review file not found" and
\* returns nothing; on an existing file it returns what
\* parseReviewContent(fileText, basename(path)) returns, the base name being
\* the title when the document has no title heading.
FileNotFoundOrParsed ==
  \A h \in Finished :
    h.call.kind = "file"
      => IF h.call.file = Missing
         THEN h.error = NotFound /\ h.returned = NoValue
         ELSE /\ h.error = "none"
              /\ ~FirstMatch(h.call.file, MetadataRes.title).ok
                   => h.returned.title = <<Tk(h.call.filePath[Len(h.call.filePath)])>>
              /\ \A g \in Finished :
                   /\ g.call.kind = "content"
                   /\ g.call.content = h.call.file
                   /\ g.call.fileName = <<Tk(h.call.filePath[Len(h.call.filePath)])>>
                   => SameButTimestamp(h.returned, g.returned)

\* A missing file was refused, a file was parsed, and its text was parsed
\* under its base name.
FileWitness ==
  /\ \E h \in Finished : h.call.kind = "file" /\ h.error = NotFound
  /\ \E h \in Finished :
       /\ h.call.kind = "file"
       /\ h.error = "none"
       /\ Len(h.returned.issues) > 0
       /\ \E g \in Finished :
            /\ g.call.kind = "content"
            /\ g.call.content = h.call.file
            /\ g.call.fileName = h.returned.title

\* C10: two calls parseReviewContent(s, f) with the same arguments, whatever
\* was called before and between them, return documents equal in every
\* field, except the timestamp when no timestamp label was found.
SameArgumentsSameDocument ==
  \A g, h \in Finished :
    /\ g.call.kind = "content"
    /\ h.call.kind = "content"
    /\ g.call.content = h.call.content
    /\ g.call.fileName = h.call.fileName
    => /\ g.error = h.error
       /\ SameButTimestamp(g.returned, h.returned)
       /\ FirstMatch(g.call.content, MetadataRes.timestamp).ok
            => g.returned.timestamp = h.returned.timestamp

\* A document with issues was parsed twice, a call on another input lying
\* between the two, and the defaulted timestamps differ.
SameArgumentsWitness ==
  \E g, h \in Finished :
    /\ g.call.kind = "content"
    /\ h.call.kind = "content"
    /\ g.call.content = h.call.content
    /\ g.call.fileName = h.call.fileName
    /\ h.call.now = g.call.now + 2
    /\ Len(g.returned.issues) > 0
    /\ g.returned.timestamp # h.returned.timestamp
    /\ \E f \in Finished : f.call.now = g.call.now + 1 /\ f.call.content # g.call.content

\* C11: cleanMarkdown is idempotent: cleaning a cleaned text changes nothing.
CleanIdempotent ==
  Len(cleanings) >= 3 => cleanings[3] = cleanings[2]

\* text occurs in s, character for character.
Contains(s, text) ==
  \E i \in 1..(Len(s) - Len(text) + 1) : SubSeq(s, i, i + Len(text) - 1) = text

FencesOf(parts) == SelectSeq(parts, LAMBDA f : f.fence)
FirstOr(fs, dflt) == IF fs = <<>> THEN dflt ELSE BodyOf(fs[1])

\* The diff content as stated: the body of the first block labeled diff,
\* else of the first unlabeled block, else the empty string.
DiffAsStated(parts) ==
  FirstOr(SelectSeq(FencesOf(parts), LAMBDA f : f.label = Str(<<"diff">>)),
          FirstOr(SelectSeq(FencesOf(parts), LAMBDA f : f.label = <<>>), <<>>))

\* C13: diffContent is the content of the first fenced block labeled diff if
\* the document has one, otherwise the content of the first unlabeled fenced
\* block, otherwise the empty string; it is never text lying between two
\* fenced blocks.
DiffIsFirstDiffOrUnlabeled ==
  pc = "done"
    => \A parts \in FencedParts :
         call.content = Fenced(parts) => returned.diffContent = DiffAsStated(parts)

\* The key the loop of parseCodeContent files a block under: the comment of
\* the fence line, else the comment line the body starts with, else
\* code.<ext> for a language label other than diff; Undefined for a block it
\* does not file.
KeyOf(f) ==
  IF f.comment # <<>> THEN f.comment
  ELSE IF f.lead # <<>> THEN f.lead
  ELSE IF f.label # <<>> /\ f.label # Str(<<"diff">>)
       THEN Str(<<"code", ".", getExtensionForLanguage(f.label[1].c)>>)
       ELSE Undefined

\* The key as stated: the comment of the fence line, else code.<ext>, with
\* txt for a block without a label; Undefined for a diff block without a comment.
KeyAsStated(f) ==
  IF f.comment # <<>> THEN f.comment
  ELSE IF f.label = Str(<<"diff">>) THEN Undefined
  ELSE IF f.label = <<>> THEN Str(<<"code", ".", "txt">>)
  ELSE Str(<<"code", ".", getExtensionForLanguage(f.label[1].c)>>)

Keys(parts, key(_)) ==
  {key(FencesOf(parts)[i]) : i \in Indices(FencesOf(parts))} \ {Undefined}

LastUnder(parts, key) ==
  FencesOf(parts)[CHOOSE i \in Indices(FencesOf(parts)) :
                    /\ KeyOf(FencesOf(parts)[i]) = key
                    /\ \A j \in Indices(FencesOf(parts)) :
                         KeyOf(FencesOf(parts)[j]) = key => j <= i]

\* C15: the code-block map is last-write-wins: when several fenced blocks
\* resolve to the same key (the same filename comment or the same
\* synthesized code.<ext>), the map holds one entry for that key and its
\* value is the content of the block that occurs last in the document.
LastWriteWins ==
  pc = "done"
    => \A parts \in FencedParts :
         call.content = Fenced(parts)
           => \A key \in DOMAIN returned.codeContent :
                /\ key \in Keys(parts, KeyOf)
                /\ returned.codeContent[key] = LastUnder(parts, key).code

\* Two blocks with the same filename comment and two with the same
\* synthesized name were parsed: the map holds the later content of each.
LastWriteWinsWitness ==
  /\ pc = "done"
  /\ \/ /\ call.content = Fenced(<<NamedFence, NamedAgainFence>>)
        /\ returned.codeContent[Str(<<"utils", ".", "js">>)] = NamedAgainFence.code
     \/ /\ call.content = Fenced(<<FooFence, JsFence>>)
        /\ returned.codeContent[Str(<<"code", ".", "txt">>)] = JsFence.code

\* The returned issues made from the match the log has at entry k.
IssuesOfEntry(k) ==
  {i \in Indices(ReturnedIssues) :
     ReturnedIssues[i].src.by = "pattern" /\ ReturnedIssues[i].src.at = log[k].at}

\* C16: an issue made from a match of the third pattern
\* (<emoji> **Title (Line N)**: Description) has the cleaned matched Title as
\* its title and the matched N as its line: the groups title, line,
\* description are not taken as severity, title, line.
EmojiFieldsNotShifted ==
  \A k \in Pushed :
    log[k].pattern = 3
      => \A m \in {Exec(EmojiPattern, call.content, log[k].at)} :
           \A i \in IssuesOfEntry(k) :
             /\ ReturnedIssues[i].title = cleanMarkdown(Group(call.content, m, 1))
             /\ ReturnedIssues[i].line = ParseInt(Group(call.content, m, 2))

\* The agent prompt as stated, for the context window ctx: the trimmed
\* content of the fenced block after an Agent Prompt label, else the
\* Context:/Task: block, else undefined.
AgentPromptAsStated(ctx, first, second) ==
  IF first.ok THEN Trim(Group(ctx, first, 1))
  ELSE IF second.ok THEN Group(ctx, second, 0)
  ELSE Undefined

\* C17: an issue whose context window holds a Context:/Task: block and no
\* Agent Prompt label is emitted with that block as agentPrompt; with an
\* Agent Prompt (or robot) label followed by a fenced block, agentPrompt is
\* the trimmed content of the block; with neither it is undefined. Agent
\* prompt text never makes a matched issue be dropped.
AgentPromptNeverDrops ==
  pc = "done"
    => /\ \A k \in Indices(log) :
            log[k].pattern > 0 /\ normalizeSeverity(log[k].severity) # None
              => log[k].pushed
       /\ \A i \in Indices(ReturnedIssues) :
            ReturnedIssues[i].src.by = "pattern"
              => \A ctx \in {ContextOf(call.content, [i |-> ReturnedIssues[i].src.at])} :
                   ReturnedIssues[i].agentPrompt
                     = AgentPromptAsStated(ctx, Match(ctx, AgentPromptRe),
                                           Match(ctx, ContextTaskRe))

\* The description as stated, for a match that ends before token e: the
\* lines among the four after the line of the match that are not blank and
\* start neither with ** nor with #, joined and cut at 300.
DescriptionAfter(content, e) ==
  OrText(Prefix(Join(PlainLines(Slice(Split(SubSeq(content, e, Len(content)), <<"\n">>), 1, 5)),
                     <<Tk(" ")>>),
                300),
         NoDescription)

\* C18: the description of an issue is built only from lines that come
\* after its own match, the first one to four non-empty lines after it that
\* do not start with ** or #; text that precedes the match in the document
\* never appears in the description.
DescriptionOnlyFromLinesAfter ==
  \A k \in Pushed :
    \A m \in {PatternExec(log[k].pattern, call.content, log[k].at)} :
      \A i \in IssuesOfEntry(k) :
        ReturnedIssues[i].description = DescriptionAfter(call.content, m.e)

\* The log entries of pattern p.
EntriesOf(p) == {k \in Indices(log) : log[k].pattern = p}

\* C19: no deduplication. The four patterns are applied in their order 1, 2,
\* 3, 4, each to the whole document, and every non-overlapping match of
\* each is processed; when the primary matcher emitted an issue, the
\* returned issues are as many as the matches whose extraction succeeded,
\* one for each of them, whatever their file, line and title: the sort
\* removes and merges nothing.
NoDeduplication ==
  /\ \A j, k \in Indices(log) :
       j < k /\ log[j].pattern > 0 /\ log[k].pattern > 0
         => /\ log[j].pattern <= log[k].pattern
            /\ log[j].pattern = log[k].pattern => log[j].at < log[k].at
  /\ pc = "done"
       => /\ \A p \in Indices(issuePatterns) :
               Cardinality(EntriesOf(p)) = Len(MatchAll(call.content, issuePatterns[p].re))
          /\ Pushed # {}
               => /\ Len(returned.issues) = Cardinality(Pushed)
                  /\ \A k \in Pushed : IssuesOfEntry(k) # {}
                  /\ \A i \in Indices(returned.issues) :
                       \E k \in Pushed : i \in IssuesOfEntry(k)

\* A returned document keeps two issues of the primary matcher that have
\* the same file, line and title.
NoDeduplicationWitness ==
  /\ pc = "done"
  /\ Cardinality(Pushed) >= 2
  /\ \E i, j \in Indices(returned.issues) :
       /\ i < j
       /\ returned.issues[i].src.at # returned.issues[j].src.at
       /\ returned.issues[i].file = returned.issues[j].file
       /\ returned.issues[i].line = returned.issues[j].line
       /\ returned.issues[i].title = returned.issues[j].title

\* s is what substring(0, n) leaves of text, for some n.
IsCutOf(s, text) == s = Prefix(text, StrLen(s))

\* The texts the description and the suggestion of an issue of the primary
\* matcher are taken from, for its context window ctx.
DescriptionSource(ctx) == Join(PlainLines(Slice(Split(ctx, <<"\n">>), 1, 5)), <<Tk(" ")>>)
SuggestionSource(ctx) == GroupOrEmpty(ctx, Match(ctx, ContextSuggestionRe), 1)
\* The same for an issue of the fallback scanner and its section.
SectionDescriptionSource(section) ==
  Join(Slice(PlainLines(Split(section, <<"\n">>)), 0, 3), <<Tk(" ")>>)
SectionSuggestionSource(section) ==
  GroupOrEmpty(section, Match(section, SectionSuggestionRe), 1)
Range(xs) == {xs[i] : i \in Indices(xs)}

\* C20: truncation comes after markdown cleaning for the three capped
\* fields: the description and the suggestion of every issue, of the
\* primary matcher and of the fallback scanner, and the summary are each a
\* prefix of the markdown-cleaned text they are taken from (or the
\* placeholder of an empty field).
CutAfterCleaning ==
  /\ \A i \in Indices(ReturnedIssues) :
       /\ ReturnedIssues[i].src.by = "pattern"
            => \A ctx \in {ContextOf(call.content, [i |-> ReturnedIssues[i].src.at])} :
                 /\ \/ ReturnedIssues[i].description = NoDescription
                    \/ IsCutOf(ReturnedIssues[i].description,
                               cleanMarkdown(DescriptionSource(ctx)))
                 /\ \/ ReturnedIssues[i].suggestion = ReviewAndAddress
                    \/ IsCutOf(ReturnedIssues[i].suggestion,
                               cleanMarkdown(SuggestionSource(ctx)))
       /\ ReturnedIssues[i].src.by = "fallback"
            => \E section \in Range(SplitRe(call.content, SectionBreakRe)) :
                 /\ \/ ReturnedIssues[i].description = IssueFoundInReview
                    \/ IsCutOf(ReturnedIssues[i].description,
                               cleanMarkdown(SectionDescriptionSource(section)))
                 /\ \/ ReturnedIssues[i].suggestion = ReviewAndAddress
                    \/ IsCutOf(ReturnedIssues[i].suggestion,
                               cleanMarkdown(SectionSuggestionSource(section)))
  /\ pc = "done"
       => \/ returned.summary = <<>>
          \/ IsCutOf(returned.summary, SummaryUnderHeading(call.content))
          \/ IsCutOf(returned.summary, SummaryParagraph(call.content))

\* The sections of the document and, for one section, what each of its
\* "line N" mentions should become: line, severity and category.
Sections == SplitRe(call.content, SectionBreakRe)
Mention(section, lineMatch) ==
  [ line |-> ParseInt(OnlyDigits(lineMatch)),
    severity |-> inferSeverityFromContent(section),
    category |-> inferCategoryFromContent(section) ]
MentionsOf(section) ==
  {Mention(section, MatchAll(section, LineMentionRe)[j]) :
     j \in Indices(MatchAll(section, LineMentionRe))}
\* How many mentions of the sections that satisfy signal become m, and how
\* many returned issues are m.
Expected(m, signal(_), counted(_)) ==
  Cardinality({<<i, j>> \in Indices(Sections) \X (1..20) :
     /\ signal(Sections[i])
     /\ j \in Indices(MatchAll(Sections[i], LineMentionRe))
     /\ counted(ParseInt(OnlyDigits(MatchAll(Sections[i], LineMentionRe)[j])))
     /\ Mention(Sections[i], MatchAll(Sections[i], LineMentionRe)[j]) = m})
Emitted(m) ==
  Cardinality({i \in Indices(returned.issues) :
     /\ returned.issues[i].line = m.line
     /\ returned.issues[i].severity = m.severity
     /\ returned.issues[i].category = m.category})
AllMentions == UNION {MentionsOf(Sections[i]) : i \in Indices(Sections)}
NoPrimaryMatch == \A k \in Indices(log) : log[k].pattern = 0

\* A keyword or emoji of one of the five severities, and of one of the four
\* the scanner looks for.
AnySeveritySignal(section) == normalizeSeverity(section) # None
ScannedSignal(section) == normalizeSeverity(section) \in Severities \ {"info"}
AnyLine(n) == TRUE
PositiveLine(n) == ~n.nan /\ n.v > 0

\* C21 as stated: when the primary matcher finds nothing, every section
\* that holds a keyword or emoji of any of the five severities gives exactly
\* one issue per "line N" mention, with line N and the severity and category
\* of the whole section; the other sections give nothing.
OneIssuePerMention ==
  pc = "done" /\ NoPrimaryMatch
    => /\ \A m \in AllMentions : Emitted(m) = Expected(m, AnySeveritySignal, AnyLine)
       /\ \A i \in Indices(returned.issues) :
            \E m \in AllMentions : Emitted(m) > 0 /\ returned.issues[i].line = m.line

\* C21, amended: when the primary matcher finds nothing, every section that
\* holds critical, high, medium or low (as a substring, in any letter case)
\* or one of the four coloured circles gives exactly one issue per
\* "line N" mention with N >= 1, with line N and the severity and category
\* of the whole section; a mention of line 0, a section whose only signal is
\* info or the information emoji, and a section without signal give nothing.
OneIssuePerPositiveMention ==
  pc = "done" /\ NoPrimaryMatch
    => /\ \A m \in AllMentions : Emitted(m) = Expected(m, ScannedSignal, PositiveLine)
       /\ \A i \in Indices(returned.issues) :
            \E m \in AllMentions :
              /\ returned.issues[i].line = m.line
              /\ returned.issues[i].severity = m.severity
              /\ returned.issues[i].category = m.category
              /\ Expected(m, ScannedSignal, PositiveLine) > 0

\* The document of the two mentions with a section without signal returned
\* the issues of lines 7 and 8 and nothing else.
OneIssuePerMentionWitness ==
  /\ pc = "done"
  /\ NoPrimaryMatch
  /\ call.content = NoSignalSection \o Str(<<"\n">>) \o TwoMentionsSection
  /\ Len(returned.issues) = 2
  /\ \A i \in {1, 2} : returned.issues[i].severity = "low"
  /\ {returned.issues[1].line.v, returned.issues[2].line.v} = {7, 8}

\* The keyword and the emoji of each severity, in the priority order.
SeverityPriority == <<"critical", "high", "medium", "low", "info">>
SeverityEmoji(sev) ==
  CASE sev = "critical" -> <<"uD83D", "uDD34">> [] sev = "high" -> <<"uD83D", "uDFE0">>
    [] sev = "medium" -> <<"uD83D", "uDFE1">> [] sev = "low" -> <<"uD83D", "uDD35">>
    [] sev = "info" -> <<"u2139", "uFE0F">>
Signals(text, sev) == Includes(text, <<sev>>) \/ Includes(text, SeverityEmoji(sev))
\* The ranks (1 to 5) of the severities text holds a signal of.
Signalled(text) == {r \in Indices(SeverityPriority) : Signals(text, SeverityPriority[r])}

\* C22: normalizeSeverity returns the first severity, in the order critical,
\* high, medium, low, info, whose keyword (in any letter case) or emoji
\* occurs in the token, and none when no keyword or emoji occurs: of two
\* severities the higher one, critical for the bare red circle, none for
\* "moderate".
NormalizedByPriority ==
  classified # NoValue
    => /\ Signalled(classified.context) = {} <=> classified.normalized = None
       /\ \A r \in Signalled(classified.context) :
            /\ classified.normalized \in Severities
            /\ severityOrder(classified.normalized) + 1 <= r
            /\ severityOrder(classified.normalized) + 1 \in Signalled(classified.context)
       /\ classified.context = Str(<<"uD83D", "uDD34">>) => classified.normalized = "critical"
       /\ classified.context = Str(<<"Moderate">>) => classified.normalized = None

\* A token with the keywords of two severities, the lower one first, was
\* normalized to the higher one.
NormalizedWitness ==
  /\ classified # NoValue
  /\ classified.context = Str(<<"low", " ", "HIGH">>)
  /\ classified.normalized = "high"

\* The categories in the priority order, with the keywords and emoji of each.
CategoryPriority ==
  <<"security", "performance", "architecture", "testing", "documentation">>
CategoryKeywords(cat) ==
  CASE cat = "security"
         -> {<<"security">>, <<"uD83D", "uDEE1", "uFE0F">>, <<"vulnerability">>, <<"auth">>}
    [] cat = "performance"
         -> {<<"performance">>, <<"u26A1">>, <<"optimization">>, <<"s", "low">>}
    [] cat = "architecture"
         -> {<<"architecture">>, <<"uD83C", "uDFD7", "uFE0F">>, <<"design">>, <<"pattern">>}
    [] cat = "testing" -> {<<"test">>, <<"uD83E", "uDDEA">>, <<"coverage">>}
    [] cat = "documentation"
         -> {<<"document">>, <<"uD83D", "uDCDA">>, <<"comment">>, <<"docs">>}
\* The ranks (1 to 5) of the categories text holds a keyword of.
Categorised(text) ==
  {r \in Indices(CategoryPriority) :
     \E kw \in CategoryKeywords(CategoryPriority[r]) : Includes(text, kw)}
\* category is the earliest category among ranks, general when there is none.
EarliestOf(ranks, category) ==
  /\ ranks = {} <=> category = "general"
  /\ \A r \in ranks :
       \E q \in ranks : q <= r /\ category = CategoryPriority[q] /\ \A p \in ranks : q <= p

\* C23 as stated: the category is security if a security keyword or emoji
\* occurs, else performance, else architecture, else testing, else
\* documentation, and general if and only if no category keyword or emoji
\* occurs anywhere in the window or in the title.
CategoryOfWindowOrTitle ==
  classified # NoValue
    => EarliestOf(Categorised(classified.context) \cup Categorised(classified.title),
                  classified.category)

\* C23, amended: the category is the earliest category, in the order
\* security, performance, architecture, testing, documentation, of which a
\* keyword or emoji occurs in the text made of the window followed
\* immediately by the title, and general if and only if none occurs in that
\* text; a keyword made of the end of the window and the start of the title
\* counts.
CategoryOfWindowThenTitle ==
  classified # NoValue
    => EarliestOf(Categorised(classified.context \o classified.title), classified.category)

\* A window with keywords of documentation and security was classified as
\* security, and a keyword that only the title holds decided a category.
CategoryWitness ==
  /\ classified # NoValue
  /\ \/ /\ classified.context = Str(<<"docs", " ", "auth">>)
        /\ classified.category = "security"
     \/ /\ classified.context = Str(<<"Leak">>)
        /\ classified.title = Str(<<"docs">>)
        /\ classified.category = "documentation"

\* C30: the two severity classifiers agree: inferSeverityFromContent(t) is
\* normalizeSeverity(t) when that is not none and info when it is none.
ClassifiersAgree ==
  classified # NoValue
    => classified.severity
         = (IF classified.normalized = None THEN "info" ELSE classified.normalized)

\* A text without any signal, and a text whose only signal is the keyword
\* info, were both inferred as info.
ClassifiersAgreeWitness ==
  /\ classified # NoValue
  /\ classified.severity = "info"
  /\ \/ classified.context = Str(<<"Moderate">>) /\ classified.normalized = None
     \/ classified.context = Str(<<"Info">>) /\ classified.normalized = "info"

\* The first suggestion label of a window: the tokens where a label followed
\* by ":" starts, the text after it starts and the text ends (at the next
\* line that starts with ** or ##, or at the end of the window).
SuggestionLabels == {"suggestion", "fix", "solution", "recommendation"}
LabelsAt(ctx) ==
  {i \in 1..(Len(ctx) - 1) :
     /\ Lower(ctx[i].c) \in SuggestionLabels
     /\ ctx[i].n = Len(ctx[i].c)
     /\ ctx[i + 1].c = ":"}
TextStart(ctx, label) ==
  Least({j \in (label + 2)..(Len(ctx) + 1) :
           \A k \in (label + 2)..(j - 1) : IsSpace(ctx[k])} \ 
        {j \in (label + 2)..Len(ctx) : IsSpace(ctx[j])})
TextEnd(ctx, start) ==
  Least({e \in start..(Len(ctx) + 1) :
           \/ e = Len(ctx) + 1
           \/ /\ e + 2 <= Len(ctx)
              /\ ctx[e].c = "\n"
              /\ <<ctx[e + 1].c, ctx[e + 2].c>> \in {<<"*", "*">>, <<"#", "#">>}})
LabelledText(ctx) ==
  SubSeq(ctx, TextStart(ctx, Least(LabelsAt(ctx))),
         TextEnd(ctx, TextStart(ctx, Least(LabelsAt(ctx)))) - 1)

\* C24: the suggestion of an issue of the primary matcher is the cleaned
\* text, cut at 400, that follows the first Suggestion:, Fix:, Solution: or
\* Recommendation: label of its context window, up to the next heading or
\* bold line or the end of the window; without such a label it is exactly
\* "Review and address this issue"; it is never the empty string.
SuggestionFromFirstLabel ==
  \A i \in Indices(ReturnedIssues) :
    ReturnedIssues[i].src.by = "pattern"
      => \A ctx \in {ContextOf(call.content, [i |-> ReturnedIssues[i].src.at])} :
           /\ ReturnedIssues[i].suggestion # <<>>
           /\ LabelsAt(ctx) = {} => ReturnedIssues[i].suggestion = ReviewAndAddress
           /\ LabelsAt(ctx) # {} /\ cleanMarkdown(LabelledText(ctx)) # <<>>
                => ReturnedIssues[i].suggestion = Prefix(cleanMarkdown(LabelledText(ctx)), 400)

\* An issue was returned whose window has a label followed by marked-up
\* text: its suggestion is the text without the markers.
SuggestionWitness ==
  /\ pc = "done"
  /\ call.content = BoldTagBlock \o Str(<<"\n">>) \o SuggestionBlock
  /\ \E i \in Indices(returned.issues) :
       /\ returned.issues[i].src.by = "pattern"
       /\ LabelsAt(ContextOf(call.content, [i |-> returned.issues[i].src.at])) # {}
       /\ returned.issues[i].suggestion = Str(<<"use", " ", "parameterized", " ", "queries">>)

\* The value the label lines of parts give to field f: the value of the
\* earliest line among those read by the expression tried first; dflt when
\* no line labels f. No line of another field is looked at.
LabelledValue(parts, f, dflt) ==
  LET own == {i \in 1..Len(parts) : parts[i].field = f}
      first == {i \in own : \A j \in own :
                  \/ parts[i].rank < parts[j].rank
                  \/ parts[i].rank = parts[j].rank /\ i <= j}
  IN  IF own = {} THEN dflt ELSE parts[CHOOSE i \in first : TRUE].value
MetadataFields == {"timestamp", "branch", "repository", "provider", "model", "title"}

\* C25: each metadata field is extracted on its own, by trying its
\* expressions in a fixed order (bold label before plain label): the first
\* expression that matches anywhere supplies the trimmed value, even when a
\* later expression would match earlier in the text; the lines of one field
\* never change the value of another; and parseMetadata changes nothing but
\* the five fields and the title.
MetadataPerField ==
  \A parts \in FrontParts :
    call.content = FrontText(parts)
      => /\ pc \notin {"idle", "metadata"}
              => \A f \in MetadataFields :
                   result[f] = LabelledValue(parts, f, NewResult(call.fileName, call.now)[f])
         /\ pc = "summary"
              => \A f \in (DOMAIN result) \ MetadataFields :
                   result[f] = NewResult(call.fileName, call.now)[f]

\* A document whose plain branch label comes before its bold one has been
\* read: the bold label gave the branch, and the model kept its default.
MetadataWitness ==
  /\ pc = "done"
  /\ call.content = Str(<<"Branch", ":", " ", "topic", "\n", "*", "*", "Branch", "*", "*", ":",
                          " ", "dev">>)
  /\ returned.branch = Str(<<"dev">>)
  /\ returned.model = Str(<<"unknown">>)

\* The three summary headings, in the order they are tried.
SummaryHeadings == << <<"Summary">>, <<"Review", " ", "Summary">>, <<"Overview">> >>

\* Where the text under the heading "## words" written at i starts: after
\* the last line break of the white space that follows the words; 0 when
\* the words are not at i or no line break follows them.
BodyStart(content, i, words) ==
  LET after == i + 3 + Len(words)
      run == {k \in after..Len(content) : \A j \in after..k : IsSpace(content[j])}
      breaks == {k \in run : content[k].c = "\n"}
  IN  IF /\ after <= Len(content) + 1
         /\ <<content[i].c, content[i + 1].c, content[i + 2].c>> = <<"#", "#", " ">>
         /\ \A j \in 1..Len(words) : SameToken(content[i + 2 + j], words[j], TRUE)
         /\ breaks # {}
      THEN 1 + CHOOSE k \in breaks : \A j \in breaks : j <= k
      ELSE 0
HeadingsAt(content, words) ==
  {i \in 1..(Len(content) - 2 - Len(words)) : BodyStart(content, i, words) > 0}
HeadingsFound(content) == {h \in Indices(SummaryHeadings) : HeadingsAt(content, SummaryHeadings[h]) # {}}

\* The text under the earliest occurrence of the first heading found, up to
\* the next line that starts with "##" or "**".
HeadingBody(content) ==
  LET words == SummaryHeadings[Least(HeadingsFound(content))]
      start == BodyStart(content, Least(HeadingsAt(content, words)), words)
  IN  SubSeq(content, start, TextEnd(content, start) - 1)

\* The second of the paragraphs that blank lines ("\n\n") separate; <<>>
\* when there is none.
BlankLines(content, from) ==
  {i \in from..(Len(content) - 1) : content[i].c = "\n" /\ content[i + 1].c = "\n"}
SecondParagraph(content) ==
  LET first == Least(BlankLines(content, 1))
      next == Least(BlankLines(content, first + 2))
  IN  IF first = 0 THEN <<>>
      ELSE SubSeq(content, first + 2, IF next = 0 THEN Len(content) ELSE next - 1)
ParagraphSummary(content) == Prefix(cleanMarkdown(SecondParagraph(content)), 300)
HeadingSummary(content) == Prefix(cleanMarkdown(HeadingBody(content)), 500)

\* C26 as stated: the summary is the cleaned text (at most 500 characters)
\* under the first of the headings Summary, Review Summary, Overview that
\* matches; the second paragraph (cleaned, at most 300 characters) is used
\* only if none of the three headings matches; with neither, it is empty.
SummaryFromHeadingElseParagraph ==
  pc = "done"
    => returned.summary = IF HeadingsFound(call.content) # {}
                          THEN HeadingSummary(call.content)
                          ELSE ParagraphSummary(call.content)

\* C26 amended: the second paragraph is used as well when a heading matches
\* and the cleaned text under it is empty.
SummaryFromHeadingOrParagraph ==
  pc = "done"
    => returned.summary = IF /\ HeadingsFound(call.content) # {}
                             /\ HeadingSummary(call.content) # <<>>
                          THEN HeadingSummary(call.content)
                          ELSE ParagraphSummary(call.content)

\* A document with an Overview heading before a Summary heading was
\* summarised by the text under the latter, cleaned.
SummaryWitness ==
  /\ pc = "done"
  /\ call.content = OverviewHeading \o Str(<<"\n">>) \o SummaryHeading
  /\ HeadingsFound(call.content) = {1, 3}
  /\ returned.summary = Str(<<"short", " ", "sum">>)

\* The lines of a section that can give its title (after trimming, they
\* start with "##" or "**"), the lines that can give its description (not
\* blank, starting with neither "#" nor "**"), and the places of its
\* suggestion labels.
StartsHeading(line) ==
  /\ Len(line) >= 2
  /\ <<line[1].c, line[2].c>> \in {<<"#", "#">>, <<"*", "*">>}
StartsPlain(line) ==
  /\ \E i \in Indices(line) : ~IsSpace(line[i])
  /\ line[1].c # "#"
  /\ ~StartsHeading(line)
SectionLines(section) == Split(section, <<"\n">>)
HeadingLinesOf(section) ==
  {i \in Indices(SectionLines(section)) : StartsHeading(Trim(SectionLines(section)[i]))}
PlainLinesOf(section) ==
  {i \in Indices(SectionLines(section)) : StartsPlain(SectionLines(section)[i])}
SectionLabelsOf(section) ==
  {i \in 1..(Len(section) - 1) :
     /\ Lower(section[i].c) \in {"suggestion", "fix", "solution"}
     /\ section[i + 1].c = ":"}
IssueAtLine(n) == Str(<<"Issue", " ", "at", " ", "line", " ">>) \o NumberToString(n)
FallbackIssues == {k \in Indices(returned.issues) : returned.issues[k].src.by = "fallback"}
ScannedMentions ==
  {<<i, j>> \in Indices(Sections) \X (1..20) :
     /\ ScannedSignal(Sections[i])
     /\ j \in Indices(MatchAll(Sections[i], LineMentionRe))
     /\ PositiveLine(ParseInt(OnlyDigits(MatchAll(Sections[i], LineMentionRe)[j])))}

\* C27: every issue of the fallback scanner has a non-empty title,
\* description and suggestion; it comes from a scanned section that mentions
\* its line, and the title is "Issue at line N" when that section has no
\* line starting with "##" or "**", the description "Issue found in code
\* review" when it has no plain-text line, the suggestion "Review and
\* address this issue" when it has no suggestion, fix or solution label. A
\* section whose extractions give nothing suppresses no issue: there are as
\* many issues as positive line mentions in scanned sections.
FallbackPlaceholders ==
  pc = "done"
    => /\ \A k \in FallbackIssues :
            /\ returned.issues[k].title # <<>>
            /\ returned.issues[k].description # <<>>
            /\ returned.issues[k].suggestion # <<>>
            /\ \E m \in ScannedMentions :
                 /\ returned.issues[k].line
                      = ParseInt(OnlyDigits(MatchAll(Sections[m[1]], LineMentionRe)[m[2]]))
                 /\ HeadingLinesOf(Sections[m[1]]) = {}
                      => returned.issues[k].title = IssueAtLine(returned.issues[k].line.v)
                 /\ PlainLinesOf(Sections[m[1]]) = {}
                      => returned.issues[k].description = IssueFoundInReview
                 /\ SectionLabelsOf(Sections[m[1]]) = {}
                      => returned.issues[k].suggestion = ReviewAndAddress
       /\ FallbackIssues # {} => Cardinality(FallbackIssues) = Cardinality(ScannedMentions)

\* A section without heading was scanned after a section of one heading
\* line: the first gave "Issue at line 4" and the second the placeholder
\* description, both the placeholder suggestion.
FallbackPlaceholdersWitness ==
  /\ pc = "done"
  /\ call.content = PlainSection \o Str(<<"\n">>) \o TitleOnlySection
  /\ \E k \in FallbackIssues :
       /\ returned.issues[k].title = IssueAtLine(4)
       /\ returned.issues[k].suggestion = ReviewAndAddress
  /\ \E k \in FallbackIssues :
       /\ returned.issues[k].line.v = 6
       /\ returned.issues[k].description = IssueFoundInReview

\* C28: an issue of the fallback scanner never has severity info: it comes
\* from a section that holds critical, high, medium or low (in any case) or
\* one of the four coloured circles, and its severity is one of these four.
\* Hence a returned document with an info issue had a primary pattern match.
FallbackNeverInfo ==
  pc = "done"
    => /\ \A k \in FallbackIssues :
            /\ returned.issues[k].severity \in {"critical", "high", "medium", "low"}
            /\ \E i \in Indices(Sections) :
                 /\ Signals(Sections[i], returned.issues[k].severity)
                 /\ \E j \in Indices(MatchAll(Sections[i], LineMentionRe)) :
                      ParseInt(OnlyDigits(MatchAll(Sections[i], LineMentionRe)[j]))
                        = returned.issues[k].line
       /\ (\E k \in Indices(returned.issues) : returned.issues[k].severity = "info")
            => /\ \E k \in Indices(log) : log[k].pattern > 0
               /\ FallbackIssues = {}

\* A section that says "Info:" and "medium" was scanned: its two issues are
\* medium, not info.
FallbackNeverInfoWitness ==
  /\ pc = "done"
  /\ call.content = NotesSection \o Str(<<"\n">>) \o PlainSection
  /\ Signals(call.content, "info")
  /\ Cardinality(FallbackIssues) = 2
  /\ \A k \in FallbackIssues : returned.issues[k].severity = "medium"

\* The log entries up to k that pushed an issue, and what the match of entry
\* k gives when it is extracted on its own.
PushedUpTo(k) == {j \in Pushed : j <= k}
IssueOfEntry(k) ==
  extractIssueDetails(call.content,
                      PatternExec(log[k].pattern, call.content, log[k].at)).value
Failed == {k \in Indices(log) : log[k].pattern > 0 /\ ~log[k].pushed}

\* C29: a match for which extractIssueDetails returns null changes nothing:
\* at every point of the matching loop the issues appended are, in order,
\* those of the matches that succeeded, each what its match gives on its
\* own, as if the failing matches were not in the list; and every match of
\* every pattern is processed, those after a failing match included.
FailureIsolated ==
  /\ pc \in {"issues", "code", "done"}
       => \A k \in Failed :
            \A p \in Indices(issuePatterns) :
              log[k].pattern < p /\ (pattern > p \/ pc # "issues")
                => Cardinality(EntriesOf(p)) = Len(MatchAll(call.content, issuePatterns[p].re))
  /\ pc = "issues"
       => /\ Len(result.issues) = Cardinality(Pushed)
          /\ \A k \in Pushed :
               result.issues[Cardinality(PushedUpTo(k))] = IssueOfEntry(k)
  /\ pc = "done" /\ Pushed # {}
       => /\ Len(returned.issues) = Cardinality(Pushed)
          /\ \A k \in Pushed : \E i \in Indices(returned.issues) :
               returned.issues[i] = IssueOfEntry(k)
          /\ \A k \in Failed : \A i \in Indices(returned.issues) :
               returned.issues[i].src.at # log[k].at \/ \E j \in Pushed : log[j].at = log[k].at

\* A match failed after another had pushed its issue, and a later match
\* pushed again: the document was returned with the two issues.
FailureIsolatedWitness ==
  /\ pc = "done"
  /\ \E j, k, l \in Indices(log) :
       /\ j < k /\ k < l
       /\ j \in Pushed /\ k \in Failed /\ l \in Pushed
  /\ Len(returned.issues) = Cardinality(Pushed)

====
